---- MODULE Spec2Model ----
(***************************************************************************)
(* A model of the HAILIE analytics engine: the ETL pipeline of             *)
(* build_analytics_db_v2.py (schema detection, extraction, de-duplication, *)
(* long format, percentiles, correlations, per-year reload of the DuckDB   *)
(* store) and the read-side engines of analytics_refactored.py (ranking,   *)
(* priority, momentum), of analytics.py (ranking with individual scores)   *)
(* and of data_processor_enhanced.py (the per-provider reads).  The last   *)
(* sections follow one sheet through extraction and calculation, a         *)
(* provider's reads through the engines, and load_to_duckdb statement by   *)
(* statement beside a reading process.                                     *)
(*                                                                         *)
(* Conventions.  A measure code TPnn is the integer nn.  A DataFrame is a  *)
(* sequence of records (its rows, in order); a table of the store is a bag *)
(* of records (a function from the records it holds to their number of     *)
(* copies).  A missing value (NaN / None) is NA.  A percentile is an exact *)
(* fraction <<numerator, denominator>> in lowest terms.  Scores are whole  *)
(* numbers; floating-point rounding is not modelled.                       *)
(***************************************************************************)
EXTENDS Integers, Sequences, FiniteSets, TLC

VARIABLES
    store,      \* the DuckDB file: exists, and its five tables
    lastRun,    \* the last invocation of run(): its year, the sheets it could
                \* not read, its return value and the exit code of main(),
                \* whether it repeated the run before it (same year, same
                \* frames, both successful) and whether the store already
                \* held scores of its year
    frames,     \* the DataFrames the last run() handed to load_to_duckdb
    fn,         \* which engine function the pure-function specifications applied
    arg,        \* its input
    res         \* its result

vars == <<store, lastRun, frames, fn, arg, res>>

-----------------------------------------------------------------------------
(* Generic helpers *)

\* a missing value (NaN); an integer that no score of the model equals
NA == -1
\* a cell holding text instead of a number; no score of the model equals it
Text == -2
\* an empty provider-code cell
NoCode == "NaN"

Range(s) == {s[i] : i \in DOMAIN s}

RECURSIVE SumSeq(_)
SumSeq(s) == IF s = <<>> THEN 0 ELSE Head(s) + SumSeq(Tail(s))

RECURSIVE GCD(_, _)
GCD(a, b) == IF b = 0 THEN a ELSE GCD(b, a % b)

\* the exact value n/d, in lowest terms (d > 0, n >= 0)
Frac(n, d) == LET g == GCD(n, d) IN <<n \div g, d \div g>>

Abs(x) == IF x < 0 THEN -x ELSE x

\* a function on 1..n as the sequence of its values
AsSeq(f) == f \o <<>>

\* a column of a DataFrame
Column(df, name) == AsSeq([i \in DOMAIN df |-> df[i][name]])

\* first occurrences only, in order (pandas unique / drop_duplicates)
RECURSIVE Unique(_)
Unique(s) ==
    IF s = <<>> THEN <<>>
    ELSE LET r == Unique(SubSeq(s, 1, Len(s) - 1))
         IN  IF s[Len(s)] \in Range(r) THEN r ELSE Append(r, s[Len(s)])

\* concatenation of a sequence of sequences
RECURSIVE Concat(_)
Concat(ss) == IF ss = <<>> THEN <<>> ELSE Head(ss) \o Concat(Tail(ss))

\* Bags: tables of the store
EmptyTable == <<>>
Copies(t, r) == IF r \in DOMAIN t THEN t[r] ELSE 0
SeqToTable(df) == [r \in Range(df) |-> Cardinality({i \in DOMAIN df : df[i] = r})]
\* INSERT INTO t SELECT * FROM df
InsertInto(t, df) ==
    LET b == SeqToTable(df)
    IN  [r \in DOMAIN t \cup DOMAIN b |-> Copies(t, r) + Copies(b, r)]
\* the table with the rows of a set only (what a DELETE of the others leaves)
Keep(t, rows) == [r \in rows |-> t[r]]
Rows(t) == DOMAIN t

-----------------------------------------------------------------------------
(* The measure catalogue *)

NumTP == 12
tp_codes == AsSeq([i \in 1..NumTP |-> i])
LchoNotApplicable == {2, 3, 4}

-----------------------------------------------------------------------------
(* build_analytics_db_v2.py: extraction                                    *)
(*                                                                         *)
(* A sheet is Missing (pd.read_excel raises) or holds the sequence of its  *)
(* data rows as the column mapping selects them: provider_name, provider_code *)
(* (a string, or NoCode for an empty cell) and one cell per measure (a     *)
(* number, NA for an empty cell, or Text for a cell that is not numeric).  *)

Missing == [readable |-> FALSE, rows |-> <<>>]
Readable(rows) == [readable |-> TRUE, rows |-> rows]

\* str.strip() on the provider codes the workbooks of this model use
Strip(code) == IF code = "A " THEN "A" ELSE code

\* pd.to_numeric(errors='coerce') on one cell
ToNumeric(cell) == IF cell = Text THEN NA ELSE cell

\* a sheet read as if every dataset type had a column for every measure
SheetMeasures_all(dataset_type) == 1..NumTP

\* the measures a sheet of this dataset type has a column for
SheetMeasures(dataset_type) ==
    IF dataset_type = "LCHO" THEN {m \in 1..NumTP : m \notin LchoNotApplicable}
    ELSE 1..NumTP

\* the body shared by the three extractors: keep rows with a provider code,
\* trim the code, coerce the measure cells, drop rows without any score, tag
\* the rows with the dataset type and suffix the provider name with it.
\* LCHO rows get TP02..TP04 as NA whatever the sheet holds in those columns.
ExtractRows(sheet, dataset_type) ==
    LET withCode == SelectSeq(sheet, LAMBDA r : r.provider_code # NoCode)
        wide(r)  == [provider_code |-> Strip(r.provider_code),
                     provider_name |-> <<r.provider_name, dataset_type>>,
                     dataset_type  |-> dataset_type,
                     tp |-> AsSeq([m \in 1..NumTP |->
                               IF m \in SheetMeasures(dataset_type)
                               THEN ToNumeric(r.cells[m]) ELSE NA])]
        coerced  == AsSeq([i \in DOMAIN withCode |-> wide(withCode[i])])
    IN  SelectSeq(coerced, LAMBDA w : \E m \in SheetMeasures(dataset_type) : w.tp[m] # NA)

\* each extractor returns [ok |-> FALSE] when it raises, else its DataFrame
extract_lcra_data(wb) ==
    IF ~wb.lcra.readable THEN [ok |-> FALSE, df |-> <<>>]
    ELSE [ok |-> TRUE, df |-> ExtractRows(wb.lcra.rows, "LCRA")]

\* the LCHO extractor if it swallowed its errors as the Combined one does
extract_lcho_data_lenient(wb) ==
    IF ~wb.lcho.readable THEN [ok |-> TRUE, df |-> <<>>]
    ELSE [ok |-> TRUE, df |-> ExtractRows(wb.lcho.rows, "LCHO")]

extract_lcho_data(wb) ==
    IF ~wb.lcho.readable THEN [ok |-> FALSE, df |-> <<>>]
    ELSE [ok |-> TRUE, df |-> ExtractRows(wb.lcho.rows, "LCHO")]

\* the Combined sheet is optional: any error yields an empty DataFrame
extract_combined_data(wb) ==
    IF ~wb.combined.readable THEN [ok |-> TRUE, df |-> <<>>]
    ELSE [ok |-> TRUE, df |-> ExtractRows(wb.combined.rows, "COMBINED")]

\* the coverage sheet: rows of landlord_code and landlord_type
load_table_coverage(wb) ==
    IF ~wb.coverage.readable THEN [ok |-> FALSE, df |-> <<>>]
    ELSE [ok |-> TRUE,
          df |-> AsSeq([i \in DOMAIN wb.coverage.rows |->
                    [landlord_code |-> Strip(wb.coverage.rows[i].landlord_code),
                     landlord_type |-> wb.coverage.rows[i].landlord_type]])]

-----------------------------------------------------------------------------
(* De-duplication and long format *)

\* de-duplication against the LCRA codes only
Deduplicate_lcra_only(lcra_df, lcho_df, combined_df) ==
    LET lcra_codes == {lcra_df[i].provider_code : i \in DOMAIN lcra_df}
    IN  IF combined_df = <<>> THEN combined_df
        ELSE SelectSeq(combined_df, LAMBDA r : r.provider_code \notin lcra_codes)

\* run(), phase 2: COMBINED rows of a code that LCRA or LCHO already has go
Deduplicate(lcra_df, lcho_df, combined_df) ==
    LET lcra_codes == {lcra_df[i].provider_code : i \in DOMAIN lcra_df}
        lcho_codes == {lcho_df[i].provider_code : i \in DOMAIN lcho_df}
    IN  IF combined_df = <<>> THEN combined_df
        ELSE SelectSeq(combined_df,
                    LAMBDA r : r.provider_code \notin (lcra_codes \cup lcho_codes))

\* an all_data that keeps one row of a code listed as LCRA and as LCHO
AllData_one_per_code(lcra_df, lcho_df, combined_df, year) ==
    LET lcra_codes == {lcra_df[i].provider_code : i \in DOMAIN lcra_df}
        rows == lcra_df
                \o SelectSeq(lcho_df, LAMBDA r : r.provider_code \notin lcra_codes)
                \o combined_df
    IN  AsSeq([i \in DOMAIN rows |->
           [provider_code |-> rows[i].provider_code,
            provider_name |-> rows[i].provider_name,
            dataset_type  |-> rows[i].dataset_type,
            tp            |-> rows[i].tp,
            year          |-> year]])

\* all_data: the three frames one after the other, with the year column
AllData(lcra_df, lcho_df, combined_df, year) ==
    LET rows == lcra_df \o lcho_df \o combined_df
    IN  AsSeq([i \in DOMAIN rows |->
           [provider_code |-> rows[i].provider_code,
            provider_name |-> rows[i].provider_name,
            dataset_type  |-> rows[i].dataset_type,
            tp            |-> rows[i].tp,
            year          |-> year]])

DatasetTypes(df) == Unique(AsSeq([i \in DOMAIN df |-> df[i].dataset_type]))

\* pd.melt of one dataset type's rows, then dropna on the score
transform_to_long_format(df, dataset_type, year) ==
    LET tp_cols == IF dataset_type = "LCHO"
                   THEN SelectSeq(tp_codes, LAMBDA m : m \notin LchoNotApplicable)
                   ELSE tp_codes
        melted(m) == AsSeq([i \in DOMAIN df |->
                        [provider_code |-> df[i].provider_code,
                         provider_name |-> df[i].provider_name,
                         dataset_type  |-> df[i].dataset_type,
                         tp_measure    |-> m,
                         score         |-> df[i].tp[m],
                         year          |-> year]])
        all == Concat(AsSeq([k \in DOMAIN tp_cols |-> melted(tp_cols[k])]))
    IN  SelectSeq(all, LAMBDA r : r.score # NA)

\* run(), phase 3: the long parts of every dataset type of all_data
AllRawScores(all_data, year) ==
    LET types == DatasetTypes(all_data)
    IN  Concat(AsSeq([k \in DOMAIN types |->
                  transform_to_long_format(
                      SelectSeq(all_data, LAMBDA r : r.dataset_type = types[k]),
                      types[k], year)]))

-----------------------------------------------------------------------------
(* Percentile engine *)

\* percentileofscore with kind='weak': the percentage of values up to the score
percentileofscore_weak(a, score) ==
    Frac(Cardinality({i \in DOMAIN a : a[i] <= score}) * 100, Len(a))

\* scipy.stats.percentileofscore(a, score), kind='rank' (the default): the
\* mean of the percentage of values below the score and of values up to it
percentileofscore(a, score) ==
    LET n     == Len(a)
        left  == Cardinality({i \in DOMAIN a : a[i] < score})
        right == Cardinality({i \in DOMAIN a : a[i] <= score})
        plus1 == IF left < right THEN 1 ELSE 0
    IN  Frac((left + right + plus1) * 50, n)

\* a peer group taken over every dataset type
MeasureData_any_dataset(raw_scores_df, dataset_type, tp_measure) ==
    SelectSeq(raw_scores_df, LAMBDA r : r.tp_measure = tp_measure)

\* the rows of the score frame that one (dataset_type, tp_measure) group holds
MeasureData(raw_scores_df, dataset_type, tp_measure) ==
    SelectSeq(SelectSeq(raw_scores_df, LAMBDA r : r.dataset_type = dataset_type),
           LAMBDA r : r.tp_measure = tp_measure)

calculate_percentiles_by_dataset(raw_scores_df, year) ==
    LET types == DatasetTypes(raw_scores_df)
        group(dataset_type, tp_measure) ==
            LET measure_data == MeasureData(raw_scores_df, dataset_type, tp_measure)
                all_scores   == AsSeq([i \in DOMAIN measure_data |-> measure_data[i].score])
            IN  AsSeq([i \in DOMAIN measure_data |->
                   [provider_code   |-> measure_data[i].provider_code,
                    year            |-> year,
                    tp_measure      |-> tp_measure,
                    percentile_rank |-> percentileofscore(all_scores, measure_data[i].score),
                    dataset_type    |-> dataset_type,
                    peer_group_size |-> Len(all_scores)]])
        dataset(dataset_type) ==
            LET dataset_scores == SelectSeq(raw_scores_df, LAMBDA r : r.dataset_type = dataset_type)
                measures == Unique(AsSeq([i \in DOMAIN dataset_scores |->
                                             dataset_scores[i].tp_measure]))
            IN  Concat(AsSeq([k \in DOMAIN measures |-> group(dataset_type, measures[k])]))
    IN  Concat(AsSeq([k \in DOMAIN types |-> dataset(types[k])]))

-----------------------------------------------------------------------------
(* Correlation engine *)

\* a correlation needs more than this many providers with both scores
MinSample == 5

\* a threshold that lets a sample of exactly MinSample through
EnoughData_at_least(common) == Len(common) >= MinSample

\* if len(common_indices) > 5
EnoughData(common) == Len(common) > MinSample

\* twice the average rank of xs[i] among xs (scipy rankdata, method average)
Rank2(xs, i) ==
    Cardinality({j \in DOMAIN xs : xs[j] < xs[i]})
        + Cardinality({j \in DOMAIN xs : xs[j] <= xs[i]}) + 1

\* scipy.stats.spearmanr(xs, ys): Pearson's r of the ranks.  The coefficient
\* r = cov / sqrt(vx * vy) is kept exactly, as <<sign of r, r squared>>;
\* <<0, <<0, 0>>>> is nan (one of the inputs is constant).  The p-value is
\* a function of r and the sample size and is not modelled.
spearmanr(xs, ys) ==
    LET n   == Len(xs)
        dx  == AsSeq([i \in 1..n |-> Rank2(xs, i) - (n + 1)])
        dy  == AsSeq([i \in 1..n |-> Rank2(ys, i) - (n + 1)])
        cov == SumSeq(AsSeq([i \in 1..n |-> dx[i] * dy[i]]))
        vx  == SumSeq(AsSeq([i \in 1..n |-> dx[i] * dx[i]]))
        vy  == SumSeq(AsSeq([i \in 1..n |-> dy[i] * dy[i]]))
    IN  IF vx * vy = 0 THEN <<0, <<0, 0>>>>
        ELSE <<IF cov > 0 THEN 1 ELSE IF cov < 0 THEN -1 ELSE 0,
               Frac(cov * cov, vx * vy)>>

\* the measures correlated with TP01 for a dataset type
measures_to_correlate(dataset_type) ==
    IF dataset_type = "LCHO"
    THEN SelectSeq(Tail(tp_codes), LAMBDA m : m \notin LchoNotApplicable)
    ELSE Tail(tp_codes)

calculate_correlations_by_dataset(all_data, year) ==
    LET types == DatasetTypes(all_data)
        one(dataset_type, tp_measure) ==
            LET dataset_df == SelectSeq(all_data, LAMBDA r : r.dataset_type = dataset_type)
                common == SelectSeq(dataset_df,
                                 LAMBDA r : r.tp[1] # NA /\ r.tp[tp_measure] # NA)
            IN  IF EnoughData(common)
                THEN << [year         |-> year,
                         tp_measure   |-> tp_measure,
                         correlation_with_tp01 |->
                             spearmanr(AsSeq([i \in DOMAIN common |-> common[i].tp[1]]),
                                       AsSeq([i \in DOMAIN common |->
                                                common[i].tp[tp_measure]])),
                         sample_size  |-> Len(common),
                         dataset_type |-> dataset_type] >>
                ELSE <<>>
        dataset(dataset_type) ==
            LET ms == measures_to_correlate(dataset_type)
            IN  Concat(AsSeq([k \in DOMAIN ms |-> one(dataset_type, ms[k])]))
    IN  Concat(AsSeq([k \in DOMAIN types |-> dataset(types[k])]))

-----------------------------------------------------------------------------
(* Provider-to-dataset mapping *)

\* the distinct (code, name, dataset type) of all_data, left-joined with the
\* coverage sheet on the code: one row per matching coverage row, or one row
\* with no provider type when the coverage sheet does not list the code
create_provider_dataset_mapping(coverage_df, all_data) ==
    LET providers_in_data ==
            Unique(AsSeq([i \in DOMAIN all_data |->
                      [provider_code |-> all_data[i].provider_code,
                       provider_name |-> all_data[i].provider_name,
                       dataset_type  |-> all_data[i].dataset_type]]))
        row(p, t) == [provider_code |-> p.provider_code,
                      provider_name |-> p.provider_name,
                      dataset_type  |-> p.dataset_type,
                      provider_type |-> t]
        joined(p) ==
            LET hits == SelectSeq(coverage_df, LAMBDA c : c.landlord_code = p.provider_code)
            IN  IF hits = <<>> THEN << row(p, "NaN") >>
                ELSE AsSeq([k \in DOMAIN hits |-> row(p, hits[k].landlord_type)])
    IN  Concat(AsSeq([i \in DOMAIN providers_in_data |-> joined(providers_in_data[i])]))

-----------------------------------------------------------------------------
(* The persistence store and load_to_duckdb *)

\* exists: the database file is there; tables: the tables it has
NoStore ==
    [exists |-> FALSE,
     tables |-> {},
     raw_scores |-> EmptyTable,
     calculated_percentiles |-> EmptyTable,
     calculated_correlations |-> EmptyTable,
     provider_dataset_mapping |-> EmptyTable,
     provider_summary |-> EmptyTable]

NoFrames ==
    [all_data |-> <<>>, raw_scores |-> <<>>, percentiles |-> <<>>,
     correlations |-> <<>>, mapping |-> <<>>]

\* a reload without the DELETE of the year
DeleteYear_none(t, year) == t

\* DELETE FROM t WHERE year = ?
DeleteYear(t, year) == Keep(t, {r \in DOMAIN t : r.year # year})

\* a mapping that is only ever appended to
DeleteMapped_none(t, mapping_df) == t

\* DELETE FROM provider_dataset_mapping
\*   WHERE provider_code IN (SELECT provider_code FROM mapping_df)
DeleteMapped(t, mapping_df) ==
    Keep(t, {r \in DOMAIN t : r.provider_code \notin Range(Column(mapping_df, "provider_code"))})

AllTables ==
    {"raw_scores", "calculated_percentiles", "calculated_correlations",
     "provider_dataset_mapping", "provider_summary"}

\* The result of load_to_duckdb: whether it returned (ok) or raised, and the
\* store it leaves; the statements run in autocommit, one after the other.
\* Creating: the tables are made from the frames in turn; a run without any
\* correlation has a correlations frame without columns, which no table can
\* be made from, so that statement raises after the first two tables exist.
\* Appending: the look-up of provider_summary's columns finds none when the
\* table is not there, and the ALTER TABLE of the migration raises; a
\* provider_summary this pipeline created has the year column, so the
\* migration itself never runs.
load_to_duckdb(st, f, year) ==
    IF ~st.exists
    THEN IF f.correlations = <<>>
         THEN [ok |-> FALSE,
               store |-> [NoStore EXCEPT
                            !.exists = TRUE,
                            !.tables = {"raw_scores", "calculated_percentiles"},
                            !.raw_scores = SeqToTable(f.raw_scores),
                            !.calculated_percentiles = SeqToTable(f.percentiles)]]
         ELSE [ok |-> TRUE,
               store |-> [exists |-> TRUE,
                          tables |-> AllTables,
                          raw_scores |-> SeqToTable(f.raw_scores),
                          calculated_percentiles |-> SeqToTable(f.percentiles),
                          calculated_correlations |-> SeqToTable(f.correlations),
                          provider_dataset_mapping |-> SeqToTable(f.mapping),
                          provider_summary |-> SeqToTable(f.all_data)]]
    ELSE IF "provider_summary" \notin st.tables
    THEN [ok |-> FALSE, store |-> st]
    ELSE [ok |-> TRUE, store |->
         [exists |-> TRUE,
          tables |-> st.tables,
          raw_scores |->
              InsertInto(DeleteYear(st.raw_scores, year), f.raw_scores),
          calculated_percentiles |->
              InsertInto(DeleteYear(st.calculated_percentiles, year), f.percentiles),
          calculated_correlations |->
              IF Len(f.correlations) > 0
              THEN InsertInto(DeleteYear(st.calculated_correlations, year), f.correlations)
              ELSE DeleteYear(st.calculated_correlations, year),
          provider_summary |->
              InsertInto(DeleteYear(st.provider_summary, year), f.all_data),
          provider_dataset_mapping |->
              InsertInto(DeleteMapped(st.provider_dataset_mapping, f.mapping), f.mapping)]]

-----------------------------------------------------------------------------
(* run(): the whole pipeline for one workbook and one year *)

\* the result of run() on store st: its return value, the frames it built
\* and the store it leaves.  Any exception before phase 6 leaves the store
\* untouched: a missing coverage, LCRA or LCHO sheet, or no score record at
\* all (pd.concat of an empty list raises).  An exception in phase 6 makes
\* run() return False with the store as load_to_duckdb left it.
run(st, wb, year) ==
    LET coverage == load_table_coverage(wb)
        lcra     == extract_lcra_data(wb)
        lcho     == extract_lcho_data(wb)
        combined == extract_combined_data(wb)
        failed   == [ok |-> FALSE, frames |-> NoFrames, store |-> st]
    IN  IF ~coverage.ok \/ ~lcra.ok \/ ~lcho.ok THEN failed
        ELSE
        LET combined_df == Deduplicate(lcra.df, lcho.df, combined.df)
            all_data    == AllData(lcra.df, lcho.df, combined_df, year)
            all_raw_scores == AllRawScores(all_data, year)
        IN  IF all_raw_scores = <<>> THEN failed
            ELSE
            LET f == [all_data     |-> all_data,
                      raw_scores   |-> all_raw_scores,
                      percentiles  |-> calculate_percentiles_by_dataset(all_raw_scores, year),
                      correlations |-> calculate_correlations_by_dataset(all_data, year),
                      mapping      |-> create_provider_dataset_mapping(coverage.df, all_data)]
                loaded == load_to_duckdb(st, f, year)
            IN  [ok |-> loaded.ok, frames |-> f, store |-> loaded.store]

\* main(): sys.exit(0 if success else 1)
ExitCode(success) == IF success THEN 0 ELSE 1

-----------------------------------------------------------------------------
(* The workbooks the pipeline is run on *)

Years == {2024, 2025}

CodeSeq == <<"A">>
DatasetSeq == <<"LCRA", "LCHO", "COMBINED">>

\* the measures a generated row has a score for, per dataset type
Present(d) == IF d = 3 THEN {1, 5} ELSE IF d = 2 THEN {1, 5, 6} ELSE {1, 2, 5}

\* the data row of provider CodeSeq[c] in the sheet DatasetSeq[d]
SheetRow(c, d) ==
    [provider_name |-> CodeSeq[c],
     provider_code |-> CodeSeq[c],
     cells |-> AsSeq([m \in 1..NumTP |->
                  IF m \in Present(d) THEN 20 * c + 10 * d + m ELSE NA])]

\* the sheet DatasetSeq[d] of a workbook in which provider c is listed in
\* the sheets member[c], in the order of CodeSeq
Sheet(member, d) ==
    Concat(AsSeq([c \in DOMAIN CodeSeq |->
              IF DatasetSeq[d] \in member[c] THEN << SheetRow(c, d) >> ELSE <<>>]))

FullCoverage ==
    << [landlord_code |-> "A", landlord_type |-> "LA"],
       [landlord_code |-> "B", landlord_type |-> "HA"] >>

GeneratedWorkbooks ==
    { [coverage |-> Readable(FullCoverage),
       lcra     |-> Readable(Sheet(member, 1)),
       lcho     |-> Readable(Sheet(member, 2)),
       combined |-> Readable(Sheet(member, 3))] :
      member \in [DOMAIN CodeSeq -> SUBSET Range(DatasetSeq)] }

\* six LCRA providers with TP01 and TP02, five of them (A to E) with TP05
\* too: enough for a correlation of TP02, one short for TP05; F is also in
\* the Combined sheet, G only there
BigRow(i, code) ==
    [provider_name |-> code, provider_code |-> code,
     cells |-> [m \in 1..NumTP |->
                  IF m = 1 THEN 50 + 5 * i
                  ELSE IF m = 2 THEN 90 - 7 * i
                  ELSE IF m = 5 /\ i < 6 THEN 60 + ((3 * i) % 7)
                  ELSE NA]]

BigWorkbook ==
    [coverage |-> Readable(FullCoverage),
     lcra     |-> Readable(<< BigRow(1, "A"), BigRow(2, "B"), BigRow(3, "C"),
                              BigRow(4, "D"), BigRow(5, "E"), BigRow(6, "F") >>),
     lcho     |-> Readable(<<>>),
     combined |-> Readable(<< BigRow(6, "F"), BigRow(7, "G") >>)]

\* rows the extractors drop or clean: text cells only, no provider code, a
\* padded code, a score above 100; and a provider listed twice
OddWorkbook ==
    [coverage |-> Readable(FullCoverage \o
                           << [landlord_code |-> "A ", landlord_type |-> "ALMO"] >>),
     lcra     |-> Readable(<< [provider_name |-> "B", provider_code |-> "B",
                      cells |-> [m \in 1..NumTP |-> IF m = 1 THEN Text ELSE NA]],
                     [provider_name |-> "X", provider_code |-> NoCode,
                      cells |-> [m \in 1..NumTP |-> 70]],
                     [provider_name |-> "A", provider_code |-> "A ",
                      cells |-> [m \in 1..NumTP |-> IF m = 1 THEN 150 ELSE Text]] >>),
     lcho     |-> Readable(<< [provider_name |-> "B", provider_code |-> "B",
                      cells |-> [m \in 1..NumTP |-> 40 + m]],
                     [provider_name |-> "B2", provider_code |-> "B",
                      cells |-> [m \in 1..NumTP |-> IF m = 1 THEN 45 ELSE NA]] >>),
     combined |-> Readable(<< SheetRow(1, 3), BigRow(2, "B") >>)]

\* workbooks with a sheet that cannot be read
BrokenWorkbooks ==
    { [BigWorkbook EXCEPT !.coverage = Missing],
      [BigWorkbook EXCEPT !.lcra = Missing],
      [BigWorkbook EXCEPT !.lcho = Missing],
      [BigWorkbook EXCEPT !.combined = Missing],
      [BigWorkbook EXCEPT !.lcra = Readable(<<>>), !.combined = Missing] }

Workbooks == GeneratedWorkbooks \cup {BigWorkbook, OddWorkbook} \cup BrokenWorkbooks

\* the sheets of a workbook that cannot be read
Unreadable(wb) ==
    {n \in {"coverage", "lcra", "lcho", "combined"} : ~wb[n].readable}

-----------------------------------------------------------------------------
(* The pipeline over the store: one action per invocation of run() *)

Init ==
    /\ store = NoStore
    /\ lastRun = [year |-> 0, unreadable |-> {}, ok |-> FALSE, exit |-> 0,
                  again |-> FALSE, replaced |-> FALSE]
    /\ frames = NoFrames
    /\ fn = "none"
    /\ arg = <<>>
    /\ res = <<>>

Run(year, wb) ==
    LET r == run(store, wb, year)
    IN  /\ store' = r.store
        /\ frames' = r.frames
        /\ lastRun' = [year |-> year,
                       unreadable |-> Unreadable(wb),
                       ok |-> r.ok,
                       exit |-> ExitCode(r.ok),
                       again |-> /\ r.ok /\ lastRun.ok
                                 /\ lastRun.year = year /\ frames = r.frames,
                       replaced |-> /\ r.ok
                                    /\ \E x \in Rows(store.raw_scores) : x.year = year]
        /\ UNCHANGED <<fn, arg, res>>

RunPipeline == \E year \in Years, wb \in Workbooks : Run(year, wb)

Next == RunPipeline

Spec == Init /\ [][Next]_vars

-----------------------------------------------------------------------------
(* Claims about the pipeline and the store *)

YearTables ==
    {"raw_scores", "calculated_percentiles", "calculated_correlations", "provider_summary"}

\* the frame of a run that goes into each table
FrameOf(f, table) ==
    CASE table = "raw_scores" -> f.raw_scores
      [] table = "calculated_percentiles" -> f.percentiles
      [] table = "calculated_correlations" -> f.correlations
      [] table = "provider_summary" -> f.all_data
      [] table = "provider_dataset_mapping" -> f.mapping

\* the records of a table that are, or are not, of a year (with their copies)
OfYear(t, year) == [r \in {x \in DOMAIN t : x.year = year} |-> t[r]]
NotOfYear(t, year) == [r \in {x \in DOMAIN t : x.year # year} |-> t[r]]

\* no code is COMBINED in one row and LCRA or LCHO in another
NoCombinedOverlap(rows) ==
    \A r1 \in rows, r2 \in rows :
        (r1.dataset_type = "COMBINED" /\ r2.dataset_type \in {"LCRA", "LCHO"})
            => r1.provider_code # r2.provider_code

\* C1: no provider code is COMBINED while it is also LCRA or LCHO: among the
\* de-duplicated rows of a run (all_data, and the rows provider_summary
\* keeps of each year) and in provider_dataset_mapping after any reloads.
C1_NoCombinedAlongside ==
    /\ NoCombinedOverlap(Range(frames.all_data))
    /\ \A y \in Years :
          NoCombinedOverlap({r \in Rows(store.provider_summary) : r.year = y})
    /\ NoCombinedOverlap(Rows(store.provider_dataset_mapping))

\* C1 witness: a provider was loaded as COMBINED for one year and as LCRA for
\* the other, and the last run dropped a COMBINED row (F, listed in LCRA too)
\* while keeping a COMBINED-only one (G)
C1_Witness ==
    /\ lastRun.ok
    /\ \E r1 \in Rows(store.raw_scores), r2 \in Rows(store.raw_scores) :
          /\ r1.provider_code = r2.provider_code
          /\ r1.dataset_type = "COMBINED" /\ r2.dataset_type = "LCRA"
    /\ \E i \in DOMAIN frames.all_data :
          frames.all_data[i].provider_code = "G"
          /\ frames.all_data[i].dataset_type = "COMBINED"
    /\ \E r \in Rows(store.provider_dataset_mapping) : r.dataset_type = "COMBINED"

\* C4: a successful run for year Y leaves the records of every other year in
\* the four per-year tables as they were, and the records of Y in them are
\* then exactly the ones the run produced.
C4_ReloadReplacesOnlyItsYear ==
    [][lastRun'.ok =>
         \A t \in YearTables :
            /\ NotOfYear(store'[t], lastRun'.year) = NotOfYear(store[t], lastRun'.year)
            /\ OfYear(store'[t], lastRun'.year) = SeqToTable(FrameOf(frames', t))]_vars

\* C4 witness: year Y was reloaded with other scores than before, the store
\* holds another year with correlations, and the reload produced none
C4_Witness ==
    /\ lastRun.ok /\ lastRun.replaced /\ ~lastRun.again
    /\ frames.correlations = <<>>
    /\ \E r \in Rows(store.calculated_correlations) : r.year # lastRun.year
    /\ \E r \in Rows(store.raw_scores) : r.year = lastRun.year

\* C5: a successful run that repeats the previous successful run (same year,
\* same frames, hence same input) leaves all five tables as they were.
C5_Idempotent ==
    [][lastRun'.again => store' = store]_vars

\* C5 witness: a run was repeated on a store that also holds the other year
C5_Witness ==
    /\ lastRun.again
    /\ \E r \in Rows(store.raw_scores) : r.year # lastRun.year

\* C6: a run that cannot read the coverage, LCRA or LCHO sheet returns False
\* (exit code 1) and leaves the store as it was; an unreadable Combined sheet
\* alone is handled as an empty one.
C6_MissingSheetAborts ==
    [][/\ (lastRun'.unreadable \cap {"coverage", "lcra", "lcho"} # {})
            => (~lastRun'.ok /\ lastRun'.exit # 0 /\ store' = store)
       /\ (lastRun'.unreadable = {"combined"})
            => \E wb \in Workbooks :
                  /\ Unreadable(wb) = {"combined"}
                  /\ LET r == run(store, [wb EXCEPT !.combined = Readable(<<>>)],
                                  lastRun'.year)
                     IN  r.ok = lastRun'.ok /\ r.frames = frames' /\ r.store = store'
      ]_vars

\* C6 witness: a run failed on an unreadable LCHO sheet while the store held
\* the data of an earlier run
C6_Witness ==
    /\ ~lastRun.ok /\ "lcho" \in lastRun.unreadable
    /\ Rows(store.raw_scores) # {}

\* the providers of a dataset type that have both TP01 and the measure
Common(all_data, dataset_type, tp_measure) ==
    Cardinality({i \in DOMAIN all_data :
                    /\ all_data[i].dataset_type = dataset_type
                    /\ all_data[i].tp[1] # NA
                    /\ all_data[i].tp[tp_measure] # NA})

\* C7: every correlation record a run emits, and every one the store holds,
\* has a sample size above 5 and is not about TP01; a run emits no record
\* for a dataset type and measure that 5 or fewer providers have together
\* with TP01, and the sample size of a record it emits is that number.
C7_MinimumSample ==
    /\ \A r \in Range(frames.correlations) \cup Rows(store.calculated_correlations) :
          r.sample_size > 5 /\ r.tp_measure # 1
    /\ \A i \in DOMAIN frames.correlations :
          frames.correlations[i].sample_size =
              Common(frames.all_data, frames.correlations[i].dataset_type,
                     frames.correlations[i].tp_measure)
    /\ \A d \in Range(DatasetSeq), m \in 1..NumTP :
          Common(frames.all_data, d, m) <= 5
              => ~\E i \in DOMAIN frames.correlations :
                    /\ frames.correlations[i].dataset_type = d
                    /\ frames.correlations[i].tp_measure = m

\* C7 witness: the last run emitted a record for TP02 over six LCRA providers
\* and none for TP05, which exactly five of them have, nor for the single
\* COMBINED provider; the store also holds correlations of the other year
C7_Witness ==
    /\ lastRun.ok
    /\ \E i \in DOMAIN frames.correlations :
          /\ frames.correlations[i].dataset_type = "LCRA"
          /\ frames.correlations[i].tp_measure = 2
          /\ frames.correlations[i].sample_size = 6
    /\ Common(frames.all_data, "LCRA", 5) = 5
    /\ Common(frames.all_data, "COMBINED", 2) = 1
    /\ Len(frames.correlations) = 1
    /\ \E r \in Rows(store.calculated_correlations) : r.year # lastRun.year

-----------------------------------------------------------------------------
(* The percentile engine on its own: a score frame that is edited one      *)
(* record at a time, the percentiles being recalculated after each edit    *)

MaxRows == 3
PctCodes == {"A", "B"}
PctDatasets == {"LCRA", "LCHO"}
PctMeasures == {1, 5}
PctScores == {40, 60}

\* a row of raw_scores_df
ScoreRow(code, dataset_type, tp_measure, score, year) ==
    [provider_code |-> code,
     provider_name |-> <<code, dataset_type>>,
     dataset_type  |-> dataset_type,
     tp_measure    |-> tp_measure,
     score         |-> score,
     year          |-> year]

\* the frame without its i-th row
DropRow(df, i) == SubSeq(df, 1, i - 1) \o SubSeq(df, i + 1, Len(df))

Recalculate(df) ==
    /\ fn' = "calculate_percentiles_by_dataset"
    /\ arg' = [arg EXCEPT !.df = df]
    /\ res' = calculate_percentiles_by_dataset(df, arg.year)
    /\ UNCHANGED <<store, lastRun, frames>>

InitPct ==
    /\ store = NoStore
    /\ lastRun = [year |-> 0, unreadable |-> {}, ok |-> FALSE, exit |-> 0,
                  again |-> FALSE, replaced |-> FALSE]
    /\ frames = NoFrames
    /\ fn = "none"
    /\ \E year \in Years : arg = [df |-> <<>>, year |-> year]
    /\ res = <<>>

AddScore ==
    /\ Len(arg.df) < MaxRows
    /\ \E code \in PctCodes, d \in PctDatasets, m \in PctMeasures, x \in PctScores :
          Recalculate(Append(arg.df, ScoreRow(code, d, m, x, arg.year)))

RemoveScore ==
    \E i \in DOMAIN arg.df : Recalculate(DropRow(arg.df, i))

ChangeScore ==
    \E i \in DOMAIN arg.df, x \in PctScores :
        /\ x # arg.df[i].score
        /\ Recalculate([arg.df EXCEPT ![i].score = x])

NextPct == AddScore \/ RemoveScore \/ ChangeScore

SpecPct == InitPct /\ [][NextPct]_vars

\* the percentile records of one group, in order
GroupRecords(recs, dataset_type, tp_measure) ==
    SelectSeq(recs, LAMBDA r : r.dataset_type = dataset_type /\ r.tp_measure = tp_measure)

\* the score rows of one group, in order, as the claims define a group
GroupRows(df, dataset_type, tp_measure) ==
    SelectSeq(df, LAMBDA r : r.dataset_type = dataset_type /\ r.tp_measure = tp_measure)

\* C2: an edit that leaves the score rows of a (dataset type, measure) group
\* as they were (it added, removed or changed a record of another group, such
\* as the same measure in another dataset type) leaves the percentile records
\* of that group, percentile_rank and peer_group_size included, as they were.
C2_GroupIsolation ==
    [][\A d \in PctDatasets, m \in PctMeasures :
          GroupRows(arg'.df, d, m) = GroupRows(arg.df, d, m)
              => GroupRecords(res', d, m) = GroupRecords(res, d, m)]_vars

\* C2 witness: LCRA and LCHO both hold scores of TP01, LCHO more of them and
\* a higher one, and the LCRA score is ranked in a peer group of one
C2_Witness ==
    /\ fn = "calculate_percentiles_by_dataset"
    /\ Len(GroupRows(arg.df, "LCRA", 1)) = 1
    /\ Len(GroupRows(arg.df, "LCHO", 1)) = 2
    /\ \E i \in DOMAIN arg.df :
          /\ arg.df[i].dataset_type = "LCHO" /\ arg.df[i].tp_measure = 1
          /\ arg.df[i].score > GroupRows(arg.df, "LCRA", 1)[1].score
    /\ \E i \in DOMAIN res :
          /\ res[i].dataset_type = "LCRA" /\ res[i].tp_measure = 1
          /\ res[i].peer_group_size = 1 /\ res[i].percentile_rank = <<100, 1>>

\* the scores of a group below, and equal to, the score of its i-th row
Below(rows, i) == Cardinality({j \in DOMAIN rows : rows[j].score < rows[i].score})
Tied(rows, i) == Cardinality({j \in DOMAIN rows : rows[j].score = rows[i].score})

\* C3 as stated: every score of a group gets one record, whose percentile is
\* 100 * (number of scores of the group <= it) / n, ties included.
C3_InclusiveRank ==
    \A d \in PctDatasets, m \in PctMeasures :
        LET rows == GroupRows(arg.df, d, m)
            recs == GroupRecords(res, d, m)
        IN  /\ Len(recs) = Len(rows)
            /\ \A i \in DOMAIN rows :
                  /\ i \in DOMAIN recs
                  /\ recs[i].provider_code = rows[i].provider_code
                  /\ recs[i].percentile_rank =
                        Frac(100 * (Below(rows, i) + Tied(rows, i)), Len(rows))

\* C3 as amended: every score of a group gets one record; a score no other
\* provider of the group has gets 100 * (scores <= it) / n; k providers tied
\* on a score each get the mean of the k percentiles the tied ranks would
\* have, 100 * (scores below + (k + 1) / 2) / n; a group of one gets 100.
C3_MeanRankOfTies ==
    \A d \in PctDatasets, m \in PctMeasures :
        LET rows == GroupRows(arg.df, d, m)
            recs == GroupRecords(res, d, m)
        IN  /\ Len(recs) = Len(rows)
            /\ \A i \in DOMAIN rows :
                  /\ i \in DOMAIN recs
                  /\ recs[i].provider_code = rows[i].provider_code
                  /\ recs[i].peer_group_size = Len(rows)
                  /\ recs[i].percentile_rank =
                        Frac(50 * (2 * Below(rows, i) + Tied(rows, i) + 1), Len(rows))
                  /\ Tied(rows, i) = 1 =>
                        recs[i].percentile_rank =
                            Frac(100 * (Below(rows, i) + 1), Len(rows))
                  /\ Len(rows) = 1 => recs[i].percentile_rank = <<100, 1>>

\* C3 witness: a group of three in which two providers tie on the top score
\* (each gets 250/3, not 100) and one of one provider only (100)
C3_Witness ==
    /\ fn = "calculate_percentiles_by_dataset"
    /\ \E d \in PctDatasets, m \in PctMeasures :
          /\ Len(GroupRows(arg.df, d, m)) = 3
          /\ \E i \in DOMAIN res :
                /\ res[i].dataset_type = d /\ res[i].tp_measure = m
                /\ res[i].percentile_rank = <<250, 3>>

-----------------------------------------------------------------------------
(* analytics_refactored.py: identify_priority                              *)
(*                                                                         *)
(* Percentiles are whole points here, a correlation is in hundredths       *)
(* (-100..100) and a priority score in tenths of a point, so that          *)
(* (100 - percentile) * 0.6 + |correlation| * 100 * 0.4 is the whole       *)
(* number (100 - percentile) * 6 + |hundredths| * 4.                       *)

\* the weights of improvement potential and of correlation strength, in tenths
PotentialWeight == 6
CorrelationWeight == 4
\* correlation_dict.get(tp_measure, 0)
DefaultCorrelation == 0
\* the bands of the priority level, in tenths of a point
CriticalAbove == 700
HighAbove == 500
MediumAbove == 300

\* dict(zip(keys, values)): each key with the value of its last occurrence
DictOf(keys, values) ==
    [k \in Range(keys) |->
        values[CHOOSE i \in DOMAIN keys :
                  /\ keys[i] = k
                  /\ \A j \in DOMAIN keys : keys[j] = k => j <= i]]

\* a banding that counts the boundary score into the higher level
PriorityLevel_inclusive(priority_score) ==
    IF priority_score >= CriticalAbove THEN "Critical"
    ELSE IF priority_score >= HighAbove THEN "High"
    ELSE IF priority_score >= MediumAbove THEN "Medium"
    ELSE "Low"

PriorityLevel(priority_score) ==
    IF priority_score > CriticalAbove THEN "Critical"
    ELSE IF priority_score > HighAbove THEN "High"
    ELSE IF priority_score > MediumAbove THEN "Medium"
    ELSE "Low"

\* a choice that takes the first measure in tp order, whatever its score
MaxPriority_first(measures, entry) == entry[measures[1]]

\* max(values, key=priority_score): the first of the largest, in tp order
RECURSIVE MaxPriority(_, _)
MaxPriority(measures, entry) ==
    IF Len(measures) = 1 THEN entry[measures[1]]
    ELSE LET rest == MaxPriority(SubSeq(measures, 1, Len(measures) - 1), entry)
             last == entry[measures[Len(measures)]]
         IN  IF last.priority_score > rest.priority_score THEN last ELSE rest

\* exists: get_provider_exists; the three frames are what get_provider_scores,
\* get_provider_percentiles and get_dataset_correlations return.  A scored
\* measure without a percentile record takes the fallback
\* get_percentile_for_score, which the data processor does not define: the
\* call raises and the handler returns an error.
identify_priority(exists, provider_scores_df, provider_percentiles, correlations_df) ==
    IF ~exists THEN [error |-> "Provider not found"]
    ELSE IF provider_scores_df = <<>>
    THEN [error |-> "No scores found for priority analysis"]
    ELSE
    LET provider_scores  == DictOf(Column(provider_scores_df, "tp_measure"),
                                   Column(provider_scores_df, "score"))
        percentile_dict  == DictOf(Column(provider_percentiles, "tp_measure"),
                                   Column(provider_percentiles, "percentile_rank"))
        correlation_dict == DictOf(Column(correlations_df, "tp_measure"),
                                   Column(correlations_df, "correlation_with_tp01"))
        measures == SelectSeq(Tail(tp_codes), LAMBDA m : m \in DOMAIN provider_scores)
        entry(m) ==
            LET percentile  == percentile_dict[m]
                improvement_potential == 100 - percentile
                correlation == IF m \in DOMAIN correlation_dict
                               THEN correlation_dict[m] ELSE DefaultCorrelation
                correlation_strength == Abs(correlation)
            IN  [measure |-> m,
                 current_score |-> provider_scores[m],
                 percentile |-> percentile,
                 improvement_potential |-> improvement_potential,
                 correlation |-> correlation,
                 correlation_strength |-> correlation_strength,
                 priority_score |-> improvement_potential * PotentialWeight
                                      + correlation_strength * CorrelationWeight]
    IN  IF \E i \in DOMAIN measures : measures[i] \notin DOMAIN percentile_dict
        THEN [error |-> "Error in priority identification"]
        ELSE IF measures = <<>>
        THEN [error |-> "No measures available for priority analysis"]
        ELSE
        LET priority_scores  == [m \in Range(measures) |-> entry(m)]
            highest_priority == MaxPriority(measures, priority_scores)
        IN  [error |-> "none",
             priority_measure |-> highest_priority.measure,
             priority_level |-> PriorityLevel(highest_priority.priority_score),
             current_score |-> highest_priority.current_score,
             percentile |-> highest_priority.percentile,
             improvement_potential |-> highest_priority.improvement_potential,
             correlation_with_tp01 |-> highest_priority.correlation,
             priority_score |-> highest_priority.priority_score,
             all_priorities |-> priority_scores]

\* The inputs: a provider with a TP01 score and, for each of two further
\* measures, no score, or a score with its percentile and with or without
\* a correlation record of its dataset
PriorityMeasures == <<2, 5>>
PriorityPercentiles == {0, 25, 50, 100}
PriorityCorrelations == {-100, 0, 25, 50}

\* what the store holds about one measure: <<scored, percentile, has a
\* correlation record, correlation>>
MeasureChoices ==
    {<<FALSE, 0, FALSE, 0>>}
        \cup {<<TRUE, p, FALSE, 0>> : p \in PriorityPercentiles}
        \cup {<<TRUE, p, TRUE, c>> : p \in PriorityPercentiles, c \in PriorityCorrelations}

PriorityInput(exists, scored01, choice) ==
    LET picked(P(_)) == SelectSeq(PriorityMeasures, LAMBDA m : P(choice[m]))
        scored == picked(LAMBDA c : c[1])
        correlated == picked(LAMBDA c : c[3])
    IN  [exists |-> exists,
         provider_scores_df |->
            (IF scored01 THEN << [tp_measure |-> 1, score |-> 70] >> ELSE <<>>)
            \o AsSeq([i \in DOMAIN scored |->
                         [tp_measure |-> scored[i], score |-> 50 + scored[i]]]),
         provider_percentiles |->
            (IF scored01 THEN << [tp_measure |-> 1, percentile_rank |-> 50] >> ELSE <<>>)
            \o AsSeq([i \in DOMAIN scored |->
                         [tp_measure |-> scored[i],
                          percentile_rank |-> choice[scored[i]][2]]]),
         correlations_df |->
            AsSeq([i \in DOMAIN correlated |->
                     [tp_measure |-> correlated[i],
                      correlation_with_tp01 |-> choice[correlated[i]][4]]])]

NoMeasure == [m \in Range(PriorityMeasures) |-> <<FALSE, 0, FALSE, 0>>]

PriorityInputs ==
    {PriorityInput(TRUE, TRUE, choice) :
        choice \in [Range(PriorityMeasures) -> MeasureChoices]}
    \cup {PriorityInput(FALSE, FALSE, NoMeasure), PriorityInput(TRUE, FALSE, NoMeasure)}

IdentifyPriority ==
    \E input \in PriorityInputs :
        /\ fn' = "identify_priority"
        /\ arg' = input
        /\ res' = identify_priority(input.exists, input.provider_scores_df,
                                    input.provider_percentiles, input.correlations_df)
        /\ UNCHANGED <<store, lastRun, frames>>

NextPriority == IdentifyPriority

SpecPriority == Init /\ [][NextPriority]_vars

\* the score, percentile and correlation records of a measure in the input
ScoreOf(input, m) ==
    {input.provider_scores_df[i] : i \in {j \in DOMAIN input.provider_scores_df :
                                           input.provider_scores_df[j].tp_measure = m}}
PercentileOf(input, m) ==
    {input.provider_percentiles[i].percentile_rank :
        i \in {j \in DOMAIN input.provider_percentiles :
                 input.provider_percentiles[j].tp_measure = m}}
CorrelationOf(input, m) ==
    {input.correlations_df[i].correlation_with_tp01 :
        i \in {j \in DOMAIN input.correlations_df :
                 input.correlations_df[j].tp_measure = m}}

\* C8 as stated: every measure but TP01 the provider has a score for gets
\* priority_score = (100 - percentile) * 0.6 + |correlation| * 100 * 0.4,
\* the magnitude being 0.5 when the dataset has no correlation record for
\* the measure (scores in tenths, correlations in hundredths).
C8_DefaultHalf ==
    (fn = "identify_priority" /\ res.error = "none") =>
        \A m \in 2..NumTP :
            ScoreOf(arg, m) # {} =>
                /\ m \in DOMAIN res.all_priorities
                /\ \E p \in PercentileOf(arg, m) :
                      res.all_priorities[m].priority_score =
                          (100 - p) * 6
                          + (IF CorrelationOf(arg, m) = {} THEN 50
                             ELSE Abs(CHOOSE c \in CorrelationOf(arg, m) : TRUE)) * 4

\* how severe a level is
Severity(level) ==
    CASE level = "Critical" -> 3 [] level = "High" -> 2
      [] level = "Medium" -> 1 [] level = "Low" -> 0

-----------------------------------------------------------------------------
(* analytics_refactored.py: calculate_rankings                             *)
(*                                                                         *)
(* all_providers_df is the wide frame get_all_providers_with_scores        *)
(* returns: one row per provider code and name, one column per measure.    *)
(* A composite score and a percentile are exact fractions.                 *)

\* a/b > c/d for fractions with positive denominators
FracGT(x, y) == x[1] * y[2] > y[1] * x[2]

\* the values of a row that pass the availability test, in tp order
TpValues(row) ==
    LET available == SelectSeq(tp_codes, LAMBDA m : row.tp[m] # NA)
    IN  AsSeq([i \in DOMAIN available |-> row.tp[available[i]]])

\* a mean that counts a missing measure as 0
CompositeScore_missing_as_zero(tp_values) == Frac(SumSeq(tp_values), NumTP)

\* np.mean(tp_values)
CompositeScore(tp_values) == Frac(SumSeq(tp_values), Len(tp_values))

\* a descending sort that puts a provider ahead of those of the same score
RECURSIVE SortByScore_unstable(_)
SortByScore_unstable(list) ==
    IF list = <<>> THEN <<>>
    ELSE LET sorted == SortByScore_unstable(SubSeq(list, 1, Len(list) - 1))
             x      == list[Len(list)]
             ahead  == SelectSeq(sorted, LAMBDA y : FracGT(y[2], x[2]))
             behind == SelectSeq(sorted, LAMBDA y : ~FracGT(y[2], x[2]))
         IN  ahead \o <<x>> \o behind

\* list.sort(key=score, reverse=True): descending and stable
RECURSIVE SortByScore(_)
SortByScore(list) ==
    IF list = <<>> THEN <<>>
    ELSE LET sorted == SortByScore(SubSeq(list, 1, Len(list) - 1))
             x      == list[Len(list)]
             ahead  == SelectSeq(sorted, LAMBDA y : ~FracGT(x[2], y[2]))
             behind == SelectSeq(sorted, LAMBDA y : FracGT(x[2], y[2]))
         IN  ahead \o <<x>> \o behind

\* quartile bands that leave their lower limit to the band below
Quartile_exclusive(percentile) ==
    IF FracGT(percentile, <<75, 1>>) THEN "Top"
    ELSE IF FracGT(percentile, <<50, 1>>) THEN "High"
    ELSE IF FracGT(percentile, <<25, 1>>) THEN "Mid"
    ELSE "Low"

\* if percentile >= 75 ... elif percentile >= 50 ... elif percentile >= 25
Quartile(percentile) ==
    IF ~FracGT(<<75, 1>>, percentile) THEN "Top"
    ELSE IF ~FracGT(<<50, 1>>, percentile) THEN "High"
    ELSE IF ~FracGT(<<25, 1>>, percentile) THEN "Mid"
    ELSE "Low"

calculate_rankings(all_providers_df) ==
    IF all_providers_df = <<>> THEN [error |-> "No provider data available"]
    ELSE
    LET filtered_df == all_providers_df
        scored == SelectSeq(filtered_df, LAMBDA row : TpValues(row) # <<>>)
        \* a dict keeps the place of the first row of a code and the value
        \* of the last one
        codes  == Unique(AsSeq([i \in DOMAIN scored |-> scored[i].provider_code]))
        last(code) == scored[CHOOSE i \in DOMAIN scored :
                                /\ scored[i].provider_code = code
                                /\ \A j \in DOMAIN scored :
                                      scored[j].provider_code = code => j <= i]
        provider_scores ==
            [code \in Range(codes) |->
                LET tp_values == TpValues(last(code))
                IN  [score |-> CompositeScore(tp_values),
                     measures_count |-> Len(tp_values),
                     \* {self.tp_codes[i]: tp_values[i]}; tp_codes[i] is i
                     individual_scores |->
                        [m \in {tp_codes[i] : i \in DOMAIN tp_values} |-> tp_values[m]]]]
        scores_list == SortByScore(AsSeq([i \in DOMAIN codes |->
                                            <<codes[i], provider_scores[codes[i]].score>>]))
        total_providers == Len(scores_list)
        ranking(i) ==
            LET rank == i
                percentile == Frac((total_providers - rank) * 100, total_providers)
            IN  [rank |-> rank,
                 score |-> scores_list[i][2],
                 percentile |-> percentile,
                 quartile |-> Quartile(percentile),
                 total_providers |-> total_providers,
                 measures_count |-> provider_scores[scores_list[i][1]].measures_count]
    IN  [error |-> "none",
         rankings |-> [code \in Range(codes) |->
                          ranking(CHOOSE i \in DOMAIN scores_list :
                                      scores_list[i][1] = code)]]

\* analytics.py, calculate_rankings(df, peer_group_filter): the rankings
\* of the rows of df, each with the individual scores of its provider
analytics_calculate_rankings(df) ==
    LET tp_cols == tp_codes
    IN  IF tp_cols = <<>> THEN [error |-> "No TP measures found for ranking calculation"]
    ELSE
    LET filtered_df == df
        scored == SelectSeq(filtered_df, LAMBDA row : TpValues(row) # <<>>)
        codes  == Unique(AsSeq([i \in DOMAIN scored |-> scored[i].provider_code]))
        last(code) == scored[CHOOSE i \in DOMAIN scored :
                                /\ scored[i].provider_code = code
                                /\ \A j \in DOMAIN scored :
                                      scored[j].provider_code = code => j <= i]
        provider_scores ==
            [code \in Range(codes) |->
                LET tp_values == TpValues(last(code))
                IN  [score |-> CompositeScore(tp_values),
                     measures_count |-> Len(tp_values),
                     \* {tp_cols[i]: tp_values[i] for i in range(len(tp_values))}
                     individual_scores |->
                        [m \in {tp_cols[i] : i \in DOMAIN tp_values} |->
                            tp_values[CHOOSE i \in DOMAIN tp_values : tp_cols[i] = m]]]]
        scores_list == SortByScore(AsSeq([i \in DOMAIN codes |->
                                            <<codes[i], provider_scores[codes[i]].score>>]))
        total_providers == Len(scores_list)
        ranking(i) ==
            LET rank == i
                percentile == Frac((total_providers - rank) * 100, total_providers)
            IN  [rank |-> rank,
                 total_providers |-> total_providers,
                 score |-> scores_list[i][2],
                 percentile |-> percentile,
                 quartile |-> Quartile(percentile),
                 measures_count |-> provider_scores[scores_list[i][1]].measures_count,
                 individual_scores |-> provider_scores[scores_list[i][1]].individual_scores]
    IN  [error |-> "none",
         rankings |-> [code \in Range(codes) |->
                          ranking(CHOOSE i \in DOMAIN scores_list :
                                      scores_list[i][1] = code)]]

\* The frames the rankings are calculated of: up to MaxProviders rows, with
\* or without TP01 and TP02 (2 of the 12 measures at most). The codes are
\* taken in the order of CodeOrder: a row is of a code the frame has already
\* or of the first code it has not.
MaxProviders == 4
CodeOrder == <<"A", "B", "C", "D">>
RankCodes == Range(CodeOrder)
Tp01Scores == {NA, 60, 90}
Tp02Scores == {NA, 80}

NextCodes(df) ==
    LET used == {df[i].provider_code : i \in DOMAIN df}
    IN  {CodeOrder[k] : k \in {k \in DOMAIN CodeOrder : k <= Cardinality(used) + 1}}

WideRows(df) ==
    {[provider_code |-> code,
      tp |-> AsSeq([m \in 1..NumTP |->
                      IF m = 1 THEN tp01 ELSE IF m = 2 THEN tp02 ELSE NA])] :
        code \in NextCodes(df), tp01 \in Tp01Scores, tp02 \in Tp02Scores}

InitRank ==
    /\ store = NoStore
    /\ lastRun = [year |-> 0, unreadable |-> {}, ok |-> FALSE, exit |-> 0,
                  again |-> FALSE, replaced |-> FALSE]
    /\ frames = NoFrames
    /\ fn = "none"
    /\ arg = <<>>
    /\ res = <<>>

\* the frame of the store grows by one row and the rankings are recalculated
CalculateRankings ==
    /\ Len(arg) < MaxProviders
    /\ \E row \in WideRows(arg) :
          /\ fn' = "calculate_rankings"
          /\ arg' = Append(arg, row)
          /\ res' = calculate_rankings(Append(arg, row))
          /\ UNCHANGED <<store, lastRun, frames>>

\* analytics.py: the frame grows by one row and its rankings are calculated
CalculateRankingsOfFrame ==
    /\ Len(arg) < MaxProviders
    /\ \E row \in WideRows(arg) :
          /\ fn' = "analytics.calculate_rankings"
          /\ arg' = Append(arg, row)
          /\ res' = analytics_calculate_rankings(Append(arg, row))
          /\ UNCHANGED <<store, lastRun, frames>>

NextRank == CalculateRankings \/ CalculateRankingsOfFrame

SpecRank == InitRank /\ [][NextRank]_vars

\* the measures a row has a score for
Available(row) == {m \in 1..NumTP : row.tp[m] # NA}

\* the rows of a frame that are of a code and have at least one score
ScoredRows(df, code) ==
    {i \in DOMAIN df : df[i].provider_code = code /\ Available(df[i]) # {}}

RECURSIVE SumOver(_, _)
SumOver(row, measures) ==
    IF measures = {} THEN 0
    ELSE LET m == CHOOSE x \in measures : TRUE
         IN  row.tp[m] + SumOver(row, measures \ {m})

FirstPlace(df, code) ==
    CHOOSE i \in ScoredRows(df, code) : \A j \in ScoredRows(df, code) : i <= j

RankedAt(score) ==
    {code \in DOMAIN res.rankings : res.rankings[code].score = <<score, 1>>}

\* the peer group of four providers with the composite scores 90, 80, 70, 60
PeerGroupOfFour ==
    /\ fn = "calculate_rankings" /\ res.error = "none"
    /\ Cardinality(DOMAIN res.rankings) = 4
    /\ \A score \in {90, 80, 70, 60} : RankedAt(score) # {}

\* the rank, the percentile and the quartile of the provider of a score in
\* the peer group of four
RankingOf(score) == res.rankings[CHOOSE code \in RankedAt(score) : TRUE]

SignedFrac(n, d) ==
    IF n < 0 THEN <<-(Frac(-n, d)[1]), Frac(-n, d)[2]>> ELSE Frac(n, d)

TrendThreshold == <<1, 2>>
MeasureThreshold == 1
TopMeasures == 3

\* a test that takes a provider for comparable unless both years are empty
InsufficientData_both(provider_2024, provider_2025) ==
    provider_2024 = <<>> /\ provider_2025 = <<>>

\* if provider_2024.empty or provider_2025.empty
InsufficientData(provider_2024, provider_2025) ==
    provider_2024 = <<>> \/ provider_2025 = <<>>

\* a classification that counts an average of half a point as a trend
Direction_inclusive(avg_change) ==
    IF ~FracGT(TrendThreshold, avg_change) THEN "up"
    ELSE IF ~FracGT(avg_change, <<-TrendThreshold[1], TrendThreshold[2]>>) THEN "down"
    ELSE "stable"

\* if avg_change > 0.5 ... elif avg_change < -0.5 ... else
Direction(avg_change) ==
    IF FracGT(avg_change, TrendThreshold) THEN "up"
    ELSE IF FracGT(<<-TrendThreshold[1], TrendThreshold[2]>>, avg_change) THEN "down"
    ELSE "stable"

MomentumText(direction) ==
    IF direction = "up" THEN "Improving"
    ELSE IF direction = "down" THEN "Declining"
    ELSE "Stable performance"

\* list.sort(key=change, reverse=reverse): stable in either direction
RECURSIVE SortByChange(_, _)
SortByChange(list, reverse) ==
    IF list = <<>> THEN <<>>
    ELSE LET sorted == SortByChange(SubSeq(list, 1, Len(list) - 1), reverse)
             x      == list[Len(list)]
             after(y) == IF reverse THEN x.change > y.change
                                    ELSE x.change < y.change
             ahead  == SelectSeq(sorted, LAMBDA y : ~after(y))
             behind == SelectSeq(sorted, LAMBDA y : after(y))
         IN  ahead \o <<x>> \o behind

\* a report of every measure of the list
Leading_all(list) == list

\* list[:3]
Leading(list) ==
    SubSeq(list, 1, IF Len(list) < TopMeasures THEN Len(list) ELSE TopMeasures)

Disabled(direction, text) ==
    [direction |-> direction,
     momentum_text |-> text,
     year_over_year_change |-> <<0, 1>>,
     improved_measures |-> <<>>,
     declined_measures |-> <<>>,
     disabled |-> TRUE]

\* provider_2024, provider_2025: what get_provider_scores returns for the
\* provider and the year, rows of tp_measure and score
calculate_momentum(provider_2024, provider_2025) ==
    IF InsufficientData(provider_2024, provider_2025)
    THEN Disabled("insufficient_data", "Insufficient multi-year data")
    ELSE
    LET scores_2024 == DictOf(Column(provider_2024, "tp_measure"),
                              Column(provider_2024, "score"))
        scores_2025 == DictOf(Column(provider_2025, "tp_measure"),
                              Column(provider_2025, "score"))
        compared == SelectSeq(tp_codes, LAMBDA tp_measure :
                        /\ tp_measure \in DOMAIN scores_2024
                        /\ tp_measure \in DOMAIN scores_2025)
        measure_changes ==
            AsSeq([i \in DOMAIN compared |->
                     [code |-> compared[i],
                      change |-> scores_2025[compared[i]] - scores_2024[compared[i]]]])
    IN  IF measure_changes = <<>>
        THEN Disabled("no_comparison", "No comparable measures")
        ELSE
        LET avg_change == SignedFrac(SumSeq(Column(measure_changes, "change")),
                                     Len(measure_changes))
            improved == SortByChange(SelectSeq(measure_changes,
                            LAMBDA data : data.change > MeasureThreshold), TRUE)
            declined == SortByChange(SelectSeq(measure_changes,
                            LAMBDA data : data.change < -MeasureThreshold), FALSE)
            direction == Direction(avg_change)
        IN  [direction |-> direction,
             momentum_text |-> MomentumText(direction),
             year_over_year_change |-> avg_change,
             improved_measures |-> Leading(improved),
             declined_measures |-> Leading(declined),
             total_measures_compared |-> Len(measure_changes),
             disabled |-> FALSE]

\* The scores the momentum is calculated of: the first MaxCompared measures,
\* each with or without a score in either year, the rows of a year in the
\* order of the measures
MaxCompared == 4
YearScores(year) == IF year = 2024 THEN {50, 53} ELSE {49, 51, 55}

InitMomentum ==
    /\ store = NoStore
    /\ lastRun = [year |-> 0, unreadable |-> {}, ok |-> FALSE, exit |-> 0,
                  again |-> FALSE, replaced |-> FALSE]
    /\ frames = NoFrames
    /\ fn = "none"
    /\ arg = [provider_2024 |-> <<>>, provider_2025 |-> <<>>]
    /\ res = <<>>

\* the measures a further row of a year's frame can be of
FurtherMeasures(provider_scores) ==
    {m \in 1..MaxCompared :
        \A i \in DOMAIN provider_scores : provider_scores[i].tp_measure < m}

\* a score of a year is loaded and the momentum is calculated again
CalculateMomentum ==
    \E year \in Years :
       LET name   == IF year = 2024 THEN "provider_2024" ELSE "provider_2025"
       IN  \E m \in FurtherMeasures(arg[name]), x \in YearScores(year) :
              LET input == [arg EXCEPT ![name] =
                               Append(@, [tp_measure |-> m, score |-> x])]
              IN  /\ fn' = "calculate_momentum"
                  /\ arg' = input
                  /\ res' = calculate_momentum(input.provider_2024,
                                               input.provider_2025)
                  /\ UNCHANGED <<store, lastRun, frames>>

NextMomentum == CalculateMomentum

SpecMomentum == InitMomentum /\ [][NextMomentum]_vars

\* the score a year's frame has of a measure
ScoreIn(provider_scores, m) ==
    provider_scores[CHOOSE i \in DOMAIN provider_scores :
                        provider_scores[i].tp_measure = m].score

\* later year minus earlier year, for a measure of both years
ChangeOf(m) == ScoreIn(arg.provider_2025, m) - ScoreIn(arg.provider_2024, m)
InBothYears ==
    Range(Column(arg.provider_2024, "tp_measure"))
        \cap Range(Column(arg.provider_2025, "tp_measure"))

RECURSIVE SumOfChanges(_)
SumOfChanges(measures) ==
    IF measures = {} THEN 0
    ELSE LET m == CHOOSE x \in measures : TRUE
         IN  ChangeOf(m) + SumOfChanges(measures \ {m})

Notable(sign) == {m \in InBothYears : sign * ChangeOf(m) > 1}

\* what a list of measures has to be: of measures that changed by more
\* than a point in its direction, each once, with its change, at most
\* three, none left out that changed more than one listed, the larger
\* change first
TopOfNotable(list, sign) ==
    /\ Len(list) <= 3
    /\ Len(list) = (IF Cardinality(Notable(sign)) < 3
                    THEN Cardinality(Notable(sign)) ELSE 3)
    /\ \A i \in DOMAIN list :
          /\ list[i].code \in Notable(sign)
          /\ list[i].change = ChangeOf(list[i].code)
          /\ \A j \in DOMAIN list :
                /\ i < j => sign * list[i].change >= sign * list[j].change
                /\ i # j => list[i].code # list[j].code
          /\ \A m \in Notable(sign) :
                (\A j \in DOMAIN list : list[j].code # m)
                   => sign * ChangeOf(m) <= sign * list[i].change

MaxScanRows == 15

Cell(measures, role, count) ==
    [measures |-> measures, name |-> role = "name", code |-> role = "code",
     count |-> count]

\* the measures a row contains a pattern of (row_text is the whole row)
RowMeasures(row) == UNION {row[c].measures : c \in DOMAIN row}

\* a test of a header row that is content with the TP01 pattern
IsHeader_tp01_only(row) == 1 \in RowMeasures(row)

\* has_tp01 and has_other
IsHeader(row) == 1 \in RowMeasures(row) /\ RowMeasures(row) \ {1} # {}

\* the index of the header row, NA for None
_detect_header_row(df_raw) ==
    LET scanned == {r \in 0..(MaxScanRows - 1) : r < Len(df_raw)}
        found   == {r \in scanned : IsHeader(df_raw[r + 1])}
    IN  IF found = {} THEN NA
        ELSE CHOOSE r \in found : \A q \in found : r <= q

\* mapping[col] = name
Put(mapping, col, name) ==
    [c \in DOMAIN mapping \cup {col} |-> IF c = col THEN name ELSE mapping[c]]

\* the least of a set of column indices that is not empty
FirstCol(cols) == CHOOSE c \in cols : \A d \in cols : c <= d

\* the loop over expected_tp_codes: each measure takes the first column
\* not mapped yet whose header has a pattern of it and is no count column
RECURSIVE DetectTPColumns(_, _, _)
DetectTPColumns(mapping, headers, expected) ==
    IF expected = <<>> THEN mapping
    ELSE LET tp_code == Head(expected)
             cols == {c \in 0..(Len(headers) - 1) :
                        /\ c \notin DOMAIN mapping
                        /\ tp_code \in headers[c + 1].measures
                        /\ ~headers[c + 1].count}
         IN  DetectTPColumns(
                 IF cols = {} THEN mapping
                 ELSE Put(mapping, FirstCol(cols), <<"TP", tp_code>>),
                 headers, Tail(expected))

\* the mapping read from the header row, before it is validated
DetectedMapping(headers, expected) ==
    LET columns == 0..(Len(headers) - 1)
        names   == {c \in columns : headers[c + 1].name}
        named   == IF names = {} THEN Put(<<>>, 0, <<"provider_name", 0>>)
                   ELSE Put(<<>>, FirstCol(names), <<"provider_name", 0>>)
        codes   == {c \in columns : c \notin DOMAIN named /\ headers[c + 1].code}
        coded   == IF codes = {} THEN Put(named, 1, <<"provider_code", 0>>)
                   ELSE Put(named, FirstCol(codes), <<"provider_code", 0>>)
    IN  DetectTPColumns(coded, headers, expected)

\* the measure columns of a mapping
DetectedTps(mapping) == {c \in DOMAIN mapping : mapping[c][1] = "TP"}

expected_tp_codes(dataset_type) ==
    IF dataset_type = "LCHO"
    THEN SelectSeq(tp_codes, LAMBDA tp : tp \notin LchoNotApplicable)
    ELSE tp_codes

\* skiprows and column mapping of the year (2025, or 2024 and earlier);
\* COMBINED sheets are read with the LCRA configuration
Hardcoded(dataset_type, year) ==
    LET tp01 == IF year = 2025 THEN (IF dataset_type = "LCHO" THEN 25 ELSE 26)
                ELSE (IF dataset_type = "LCHO" THEN 21 ELSE 22)
        \* the column of the measure that follows TP01 in the sheet
        next == IF year = 2025 THEN tp01 + 7 ELSE tp01 + 1
        rest == Tail(expected_tp_codes(dataset_type))
    IN  [data_start_row |->
            IF year = 2025 THEN (IF dataset_type = "LCHO" THEN 9 ELSE 10) ELSE 3,
         column_mapping |->
            [c \in {0, 1, tp01} \cup {next + i - 1 : i \in DOMAIN rest} |->
                IF c = 0 THEN <<"provider_name", 0>>
                ELSE IF c = 1 THEN <<"provider_code", 0>>
                ELSE IF c = tp01 THEN <<"TP", 1>>
                ELSE <<"TP", rest[c - next + 1]>>]]

\* len(detected_tps) < len(expected_tp_codes) // 2
TooFew(detected, expected) == detected < expected \div 2

_detect_column_mapping(df_raw, dataset_type, year) ==
    LET expected   == expected_tp_codes(dataset_type)
        header_row == _detect_header_row(df_raw)
    IN  IF header_row = NA THEN Hardcoded(dataset_type, year)
        ELSE LET mapping == DetectedMapping(df_raw[header_row + 1], expected)
             IN  IF TooFew(Cardinality(DetectedTps(mapping)), Len(expected))
                 THEN Hardcoded(dataset_type, year)
                 ELSE [data_start_row |-> header_row + 1,
                       column_mapping |-> mapping]

\* The sheets the detection is run on: MaxLead rows at most above the
\* header row, blank or a title, the first of them possibly a title that
\* mentions overall satisfaction (a TP01 pattern and no other); then the
\* header row, if the sheet has one, with the columns of the first
\* measures of the catalogue, each possibly after a column of its response
\* count; then a row of data.
MaxLead == 16
Blank == Cell({}, "none", FALSE)

\* the patterns of TP07 include 'neighbourhood', which the heading of TP08
\* contains as well
Heading(m) == Cell(IF m = 8 THEN {7, 8} ELSE {m}, "none", FALSE)

\* the first two columns of a header row: no heading, the headings of the
\* provider name and the provider code, or the heading of the provider
\* name in the second column and none for the code
Labellings == {"none", "name and code", "name second"}

HeaderRow(k, labelled, counts) ==
    <<IF labelled = "name and code" THEN Cell({}, "name", FALSE) ELSE Blank,
      IF labelled = "name and code" THEN Cell({}, "code", FALSE)
      ELSE IF labelled = "name second" THEN Cell({}, "name", FALSE) ELSE Blank>>
    \o Concat(AsSeq([m \in 1..k |->
                IF counts THEN <<Cell({m}, "none", TRUE), Heading(m)>>
                ELSE <<Heading(m)>>]))

HeaderRows ==
    {HeaderRow(k, labelled, counts) :
        k \in 0..NumTP, labelled \in Labellings, counts \in BOOLEAN}

RawSheets ==
    {AsSeq([r \in 1..lead |-> IF r = 1 /\ titled THEN <<Cell({1}, "none", FALSE)>>
                              ELSE <<Blank>>])
       \o header \o <<<<Blank, Blank>>>> :
        lead \in 0..MaxLead, titled \in BOOLEAN,
        header \in {<<>>} \cup {<<row>> : row \in HeaderRows}}

InitDetect ==
    /\ store = NoStore
    /\ lastRun = [year |-> 0, unreadable |-> {}, ok |-> FALSE, exit |-> 0,
                  again |-> FALSE, replaced |-> FALSE]
    /\ frames = NoFrames
    /\ fn = "none"
    /\ \E df_raw \in RawSheets, dataset_type \in {"LCRA", "LCHO", "COMBINED"},
          year \in Years :
            arg = [df_raw |-> df_raw, dataset_type |-> dataset_type, year |-> year]
    /\ res = <<>>

\* the sheet of a source has been read and its columns are detected
DetectColumnMapping ==
    /\ fn = "none"
    /\ fn' = "_detect_column_mapping"
    /\ res' = _detect_column_mapping(arg.df_raw, arg.dataset_type, arg.year)
    /\ UNCHANGED <<store, lastRun, frames, arg>>

NextDetect == DetectColumnMapping

SpecDetect == InitDetect /\ [][NextDetect]_vars

\* the rows among the first 15 of the sheet that contain a TP01 pattern and
\* a pattern of another measure
Qualifying ==
    {r \in 0..14 : /\ r < Len(arg.df_raw)
                   /\ \E c \in DOMAIN arg.df_raw[r + 1] :
                         1 \in arg.df_raw[r + 1][c].measures
                   /\ \E c \in DOMAIN arg.df_raw[r + 1] :
                         arg.df_raw[r + 1][c].measures \ {1} # {}}

\* the measure columns the pattern matching resolves in the header row
Resolved ==
    LET header == CHOOSE r \in Qualifying : \A q \in Qualifying : r <= q
    IN  DetectedTps(DetectedMapping(arg.df_raw[header + 1],
                                    expected_tp_codes(arg.dataset_type)))

\* C16: when the measure columns resolved in the header row are fewer than
\* half of the expected ones (12 for LCRA and COMBINED, 9 for LCHO), the
\* result is the hard-coded start row and mapping of the source and year.
C16_FewerThanHalfFallsBack ==
    (fn = "_detect_column_mapping" /\ Qualifying # {}) =>
        LET expected == IF arg.dataset_type = "LCHO" THEN 9 ELSE 12
        IN  2 * Cardinality(Resolved) < expected
               => res = Hardcoded(arg.dataset_type, arg.year)

C27_OneColumnPerRole ==
    (/\ fn = "_detect_column_mapping"
     /\ Qualifying # {}
     /\ res # Hardcoded(arg.dataset_type, arg.year)) =>
        LET mapping == res.column_mapping
            with_role(role) == {c \in DOMAIN mapping : mapping[c] = role}
        IN  /\ Cardinality(with_role(<<"provider_name", 0>>)) = 1
            /\ Cardinality(with_role(<<"provider_code", 0>>)) = 1
            /\ with_role(<<"provider_name", 0>>) # with_role(<<"provider_code", 0>>)
            /\ \A m \in 1..NumTP : Cardinality(with_role(<<"TP", m>>)) <= 1

\* ------------------------------------------------------------------
\* The mapping and the de-duplicated rows after reloads
\* (build_analytics_db_v2.py, run and load_to_duckdb)
\* ------------------------------------------------------------------

\* C18: once the store has its tables, provider_dataset_mapping holds one
\* row, in one copy, for every (provider_code, dataset_type) that
\* raw_scores has a record of, and every row of it is of such a pair.
C18_OneRowPerScoredPair ==
    "provider_dataset_mapping" \in store.tables =>
        LET scored == {<<r.provider_code, r.dataset_type>> :
                          r \in Rows(store.raw_scores)}
            mapped(pair) == {r \in Rows(store.provider_dataset_mapping) :
                                <<r.provider_code, r.dataset_type>> = pair}
        IN  /\ \A pair \in scored :
                  /\ Cardinality(mapped(pair)) = 1
                  /\ \A r \in mapped(pair) : store.provider_dataset_mapping[r] = 1
            /\ \A r \in Rows(store.provider_dataset_mapping) :
                  <<r.provider_code, r.dataset_type>> \in scored

\* C19: among the rows of a run after de-duplication (all_data), no two
\* LCRA rows and no two LCHO rows are of the same provider code.
C19_OneRowPerDataset ==
    \A i, j \in DOMAIN frames.all_data :
        (/\ frames.all_data[i].provider_code = frames.all_data[j].provider_code
         /\ frames.all_data[i].dataset_type = frames.all_data[j].dataset_type
         /\ frames.all_data[i].dataset_type \in {"LCRA", "LCHO"})
            => i = j

\* ------------------------------------------------------------------
\* De-duplication on its own (build_analytics_db_v2.py, run, phase 2):
\* the three extracted frames, each listing some of three providers, with
\* scores that tell the source of a row
\* ------------------------------------------------------------------

DedupCodes == <<"A", "B", "C">>

\* the frame an extractor returns for a sheet that lists the providers of
\* a set, in the order of DedupCodes; d is the place of the dataset type in
\* DatasetSeq
ExtractedFrame(listed, d) ==
    LET codes == SelectSeq(DedupCodes, LAMBDA code : code \in listed)
    IN  AsSeq([i \in DOMAIN codes |->
           [provider_code |-> codes[i],
            provider_name |-> <<codes[i], DatasetSeq[d]>>,
            dataset_type  |-> DatasetSeq[d],
            tp |-> AsSeq([m \in 1..NumTP |->
                     IF m \in Present(d) THEN 30 * d + 2 * i + m ELSE NA])]])

InitDedup ==
    /\ store = NoStore
    /\ lastRun = [year |-> 0, unreadable |-> {}, ok |-> FALSE, exit |-> 0,
                  again |-> FALSE, replaced |-> FALSE]
    /\ frames = NoFrames
    /\ fn = "none"
    /\ \E lcra, lcho, combined \in SUBSET Range(DedupCodes), year \in Years :
          arg = [lcra_df |-> ExtractedFrame(lcra, 1),
                 lcho_df |-> ExtractedFrame(lcho, 2),
                 combined_df |-> ExtractedFrame(combined, 3),
                 year |-> year]
    /\ res = <<>>

\* run(), phase 2: the COMBINED frame is filtered and the three frames are
\* put together
DeduplicateAndCombine ==
    /\ fn = "none"
    /\ fn' = "Deduplicate"
    /\ res' = LET combined_df == Deduplicate(arg.lcra_df, arg.lcho_df, arg.combined_df)
              IN  [combined_df |-> combined_df,
                   all_data |-> AllData(arg.lcra_df, arg.lcho_df, combined_df, arg.year)]
    /\ UNCHANGED <<store, lastRun, frames, arg>>

NextDedup == DeduplicateAndCombine

SpecDedup == InitDedup /\ [][NextDedup]_vars

\* the rows of all_data of a dataset type, without the year column
RowsOfType(all_data, dataset_type) ==
    LET rows == SelectSeq(all_data, LAMBDA r : r.dataset_type = dataset_type)
    IN  AsSeq([i \in DOMAIN rows |->
           [provider_code |-> rows[i].provider_code,
            provider_name |-> rows[i].provider_name,
            dataset_type  |-> rows[i].dataset_type,
            tp            |-> rows[i].tp]])

\* C20: the COMBINED rows that remain are those of the extracted COMBINED
\* rows whose code no extracted LCRA or LCHO row has, unchanged and in
\* order; the LCRA rows and the LCHO rows of all_data are the extracted
\* ones, unchanged; a code listed as LCRA and as LCHO has both rows, each
\* with the scores of its own sheet.
C20_OnlyCoveredCombinedRemoved ==
    fn = "Deduplicate" =>
        LET codes(df) == {df[i].provider_code : i \in DOMAIN df}
            covered == codes(arg.lcra_df) \cup codes(arg.lcho_df)
            kept == {i \in DOMAIN arg.combined_df :
                        arg.combined_df[i].provider_code \notin covered}
        IN  /\ Len(res.combined_df) = Cardinality(kept)
            /\ \A i \in kept :
                  res.combined_df[Cardinality({j \in kept : j <= i})]
                     = arg.combined_df[i]
            /\ RowsOfType(res.all_data, "COMBINED") = res.combined_df
            /\ RowsOfType(res.all_data, "LCRA") = arg.lcra_df
            /\ RowsOfType(res.all_data, "LCHO") = arg.lcho_df
            /\ Len(res.all_data)
                  = Len(arg.lcra_df) + Len(arg.lcho_df) + Cardinality(kept)
            /\ \A i \in DOMAIN arg.lcra_df, j \in DOMAIN arg.lcho_df :
                  arg.lcra_df[i].provider_code = arg.lcho_df[j].provider_code
                     => \E a, b \in DOMAIN res.all_data :
                           /\ a # b
                           /\ res.all_data[a].dataset_type = "LCRA"
                           /\ res.all_data[a].tp = arg.lcra_df[i].tp
                           /\ res.all_data[b].dataset_type = "LCHO"
                           /\ res.all_data[b].tp = arg.lcho_df[j].tp
                           /\ res.all_data[a].tp # res.all_data[b].tp

\* C20 witness: A is listed in all three sheets, B in the COMBINED sheet
\* only, C as LCHO and COMBINED: the COMBINED rows of A and C go, that of B
\* stays, and A has an LCRA row and an LCHO row
C20_Witness ==
    /\ fn = "Deduplicate"
    /\ Column(arg.lcra_df, "provider_code") = <<"A">>
    /\ Column(arg.lcho_df, "provider_code") = <<"A", "C">>
    /\ Column(arg.combined_df, "provider_code") = <<"A", "B", "C">>
    /\ Column(res.combined_df, "provider_code") = <<"B">>
    /\ Column(res.all_data, "provider_code") = <<"A", "A", "C", "B">>
    /\ Column(res.all_data, "dataset_type") = <<"LCRA", "LCHO", "LCHO", "COMBINED">>

\* C30: individual_scores of a provider in the result of calculate_rankings
\* of analytics.py has exactly the measures a row of the provider has a
\* score for, each with the score of that row.
C30_IndividualScoresOwnMeasures ==
    (fn = "analytics.calculate_rankings" /\ res.error = "none") =>
        \A code \in DOMAIN res.rankings :
            \E i \in DOMAIN arg :
                /\ arg[i].provider_code = code
                /\ res.rankings[code].individual_scores
                      = [m \in {c \in 1..NumTP : arg[i].tp[c] # NA} |-> arg[i].tp[m]]

-----------------------------------------------------------------------------
\* One sheet through the pipeline (build_analytics_db_v2.py, the extractors,
\* transform_to_long_format, calculate_percentiles_by_dataset and
\* calculate_correlations_by_dataset): a sheet of up to MaxSheetRows
\* providers, read as LCRA, as LCHO or as COMBINED, with scores above 100
\* in the TP01 column for some of them
\* ------------------------------------------------------------------

MaxSheetRows == 6
SheetCodes == <<"A", "B", "C", "D", "E", "F", "G">>

\* _validate_tp_columns on the rows with a provider code: a message for a
\* measure column without numeric values, and one for a column of which
\* fewer than half the numeric values lie in 0..100
_validate_tp_columns(sheet, dataset_type) ==
    LET df == SelectSeq(sheet, LAMBDA r : r.provider_code # NoCode)
        numeric_vals(m) == SelectSeq(AsSeq([i \in DOMAIN df |-> ToNumeric(df[i].cells[m])]),
                                  LAMBDA v : v # NA)
        in_range(m) == Len(SelectSeq(numeric_vals(m), LAMBDA v : v >= 0 /\ v <= 100))
    IN  {[dataset_type |-> dataset_type, tp_col |-> m, found |-> "no numeric values"] :
            m \in {c \in SheetMeasures(dataset_type) : Len(numeric_vals(c)) = 0}}
        \cup
        {[dataset_type |-> dataset_type, tp_col |-> m, found |-> "out of range"] :
            m \in {c \in SheetMeasures(dataset_type) :
                      /\ Len(numeric_vals(c)) > 0
                      /\ in_range(c) * 100 < 50 * Len(numeric_vals(c))}}

\* the validation messages an extractor logs: the LCRA and the LCHO
\* extractor call _validate_tp_columns, the Combined one does not
ExtractionLog(sheet, dataset_type) ==
    IF dataset_type \in {"LCRA", "LCHO"} THEN _validate_tp_columns(sheet, dataset_type)
    ELSE {}

\* row i of a sheet: TP01, a value in the TP02 column, TP05
SourceRow(i, high) ==
    [provider_name |-> SheetCodes[i],
     provider_code |-> SheetCodes[i],
     cells |-> AsSeq([m \in 1..NumTP |->
                  IF m = 1 THEN (IF i \in high THEN 150 ELSE 10 * i)
                  ELSE IF m = 2 THEN 20 + i
                  ELSE IF m = 5 THEN 90 - ((4 * i) % 7)
                  ELSE NA])]

SourceSheet(n, high) == AsSeq([i \in 1..n |-> SourceRow(i, high)])

InitSheet ==
    /\ store = NoStore
    /\ lastRun = [year |-> 0, unreadable |-> {}, ok |-> FALSE, exit |-> 0,
                  again |-> FALSE, replaced |-> FALSE]
    /\ frames = NoFrames
    /\ fn = "none"
    /\ \E n \in 1..MaxSheetRows, dataset_type \in Range(DatasetSeq), year \in Years :
          \E high \in SUBSET (1..n) :
             arg = [sheet |-> SourceSheet(n, high), dataset_type |-> dataset_type,
                    year |-> year]
    /\ res = <<>>

\* the extractor of the sheet's dataset type, then run() from phase 3 on
ExtractAndCalculate ==
    /\ fn = "none"
    /\ fn' = "extract"
    /\ res' = LET df == ExtractRows(arg.sheet, arg.dataset_type)
                  all_data == AllData(df, <<>>, <<>>, arg.year)
                  raw_scores == AllRawScores(all_data, arg.year)
              IN  [df |-> df,
                   log |-> ExtractionLog(arg.sheet, arg.dataset_type),
                   raw_scores |-> raw_scores,
                   percentiles |-> calculate_percentiles_by_dataset(raw_scores, arg.year),
                   correlations |-> calculate_correlations_by_dataset(all_data, arg.year)]
    /\ UNCHANGED <<store, lastRun, frames, arg>>

NextSheet == ExtractAndCalculate

SpecSheet == InitSheet /\ [][NextSheet]_vars

\* C21: no LCHO record of TP02, TP03 or TP04 is among the raw scores, the
\* percentiles or the correlations, and the wide LCHO rows have these three
\* measures missing (never 0, never the value the sheet holds in a column
\* of that measure).
C21_NoRepairsMeasuresForLcho ==
    fn = "extract" =>
        /\ \A i \in DOMAIN res.df :
              res.df[i].dataset_type = "LCHO"
                 => \A m \in LchoNotApplicable : res.df[i].tp[m] = NA /\ res.df[i].tp[m] # 0
        /\ \A t \in {"raw_scores", "percentiles", "correlations"} :
              \A k \in DOMAIN res[t] :
                 res[t][k].dataset_type = "LCHO"
                    => res[t][k].tp_measure \notin LchoNotApplicable

\* C21 witness: an LCHO sheet of six providers with a value in the TP02
\* column of each; raw scores, percentiles and a correlation come out of it
C21_Witness ==
    /\ fn = "extract"
    /\ arg.dataset_type = "LCHO"
    /\ Len(arg.sheet) = 6
    /\ \A i \in DOMAIN arg.sheet : arg.sheet[i].cells[2] \notin {NA, Text}
    /\ Len(res.df) = 6
    /\ \E k \in DOMAIN res.raw_scores : res.raw_scores[k].dataset_type = "LCHO"
    /\ \E k \in DOMAIN res.percentiles : res.percentiles[k].dataset_type = "LCHO"
    /\ \E k \in DOMAIN res.correlations :
          res.correlations[k].dataset_type = "LCHO" /\ res.correlations[k].tp_measure = 5

\* C22: every score above 100 of a row with a provider code is among the
\* raw scores with the value the sheet holds, and the log of the extraction
\* has a range message for its column, whichever source is extracted.
C22_OutOfRangeKeptAndWarned ==
    fn = "extract" =>
        \A i \in DOMAIN arg.sheet, m \in SheetMeasures(arg.dataset_type) :
           (arg.sheet[i].provider_code # NoCode /\ arg.sheet[i].cells[m] > 100)
              => /\ \E k \in DOMAIN res.raw_scores :
                       /\ res.raw_scores[k].provider_code = Strip(arg.sheet[i].provider_code)
                       /\ res.raw_scores[k].tp_measure = m
                       /\ res.raw_scores[k].score = arg.sheet[i].cells[m]
                 /\ \E w \in res.log : w.tp_col = m /\ w.found = "out of range"

\* the number of records a table holds of the rows of a set
RECURSIVE CountIn(_, _)
CountIn(t, rows) ==
    IF rows = {} THEN 0
    ELSE LET r == CHOOSE x \in rows : TRUE
         IN  Copies(t, r) + CountIn(t, rows \ {r})

\* C26: after successful reloads every record of raw_scores has exactly
\* one record in calculated_percentiles with its provider_code, year,
\* tp_measure and dataset_type, whose peer_group_size is the number of
\* raw_scores records of that year, tp_measure and dataset_type; and every
\* percentile record has its raw score.
C26_OnePercentilePerScore ==
    lastRun.ok =>
        LET Key(r) == <<r.provider_code, r.year, r.tp_measure, r.dataset_type>>
            Group(r) == <<r.year, r.tp_measure, r.dataset_type>>
            raw == Rows(store.raw_scores)
            pct == Rows(store.calculated_percentiles)
        IN  /\ \A r \in raw :
                  /\ CountIn(store.calculated_percentiles,
                           {p \in pct : Key(p) = Key(r)}) = 1
                  /\ \A p \in pct :
                        Key(p) = Key(r)
                           => p.peer_group_size
                                 = CountIn(store.raw_scores, {x \in raw : Group(x) = Group(r)})
            /\ \A p \in pct : \E r \in raw : Key(r) = Key(p)

-----------------------------------------------------------------------------
\* One provider read from the store (data_processor_enhanced.py, the
\* getters; analytics_refactored.py, identify_priority and
\* calculate_momentum): the tables hold the records of provider A, which
\* each of the two years lists under no dataset type, under LCRA, under
\* LCHO, under both, or as COMBINED.  A table is the sequence of its rows
\* in the order a query without ORDER BY returns them.
\* ------------------------------------------------------------------

ProviderMeasures == <<1, 5>>
YearSeq == <<2024, 2025>>

\* the records of provider A of a year and a dataset type: a score and a
\* percentile that tell the year and the dataset type; the correlation of
\* TP05 with TP01 tells the dataset type too
StoredScore(y, d, m) == 40 + 13 * d + 3 * (y - 1) + m
StoredPercentile(y, d) == 25 * d + 5 * (y - 1)

\* stored[y]: the dataset types that list A in the year YearSeq[y];
\* types: the three dataset types in the order their rows were loaded;
\* correlated: the dataset types that have a correlation record of TP05
ProviderTables(stored, types, correlated) ==
    LET listed(y) == SelectSeq(types, LAMBDA d : DatasetSeq[d] \in stored[y])
        perYear(row(_, _, _)) ==
            Concat(AsSeq([y \in DOMAIN YearSeq |->
               Concat(AsSeq([k \in DOMAIN listed(y) |->
                  AsSeq([i \in DOMAIN ProviderMeasures |->
                            row(y, listed(y)[k], ProviderMeasures[i])])]))]))
        everListed == SelectSeq(types, LAMBDA d :
                          \E y \in DOMAIN YearSeq : DatasetSeq[d] \in stored[y])
        withRecord == SelectSeq(types, LAMBDA d : DatasetSeq[d] \in correlated)
    IN  [raw_scores |->
            perYear(LAMBDA y, d, m :
               [provider_code |-> "A", year |-> YearSeq[y], tp_measure |-> m,
                score |-> StoredScore(y, d, m), dataset_type |-> DatasetSeq[d]]),
         calculated_percentiles |->
            perYear(LAMBDA y, d, m :
               [provider_code |-> "A", year |-> YearSeq[y], tp_measure |-> m,
                percentile_rank |-> StoredPercentile(y, d),
                dataset_type |-> DatasetSeq[d]]),
         calculated_correlations |->
            AsSeq([k \in DOMAIN withRecord |->
               [year |-> 2025, tp_measure |-> 5,
                correlation_with_tp01 |-> 75 - 25 * withRecord[k],
                dataset_type |-> DatasetSeq[withRecord[k]]]]),
         provider_dataset_mapping |->
            AsSeq([k \in DOMAIN everListed |->
               [provider_code |-> "A", dataset_type |-> DatasetSeq[everListed[k]]]])]

\* SELECT dataset_type FROM provider_dataset_mapping WHERE provider_code = ?
\* AND dataset_type != 'COMBINED', LCRA before LCHO, LIMIT 1; "None" is None
get_provider_dataset_type(tables, provider_code) ==
    LET found == {tables.provider_dataset_mapping[i].dataset_type :
                     i \in {j \in DOMAIN tables.provider_dataset_mapping :
                              /\ tables.provider_dataset_mapping[j].provider_code = provider_code
                              /\ tables.provider_dataset_mapping[j].dataset_type # "COMBINED"}}
    IN  IF "LCRA" \in found THEN "LCRA"
        ELSE IF "LCHO" \in found THEN "LCHO"
        ELSE "None"

\* the percentile records of the provider, of every dataset type and year;
\* none when the provider has no dataset type
get_provider_percentiles(tables, provider_code) ==
    IF get_provider_dataset_type(tables, provider_code) = "None" THEN <<>>
    ELSE SelectSeq(tables.calculated_percentiles,
                LAMBDA r : r.provider_code = provider_code)

\* the correlation records of a dataset type (ORDER BY ABS(correlation)
\* DESC: the tables of this model hold one record per dataset type)
get_dataset_correlations(tables, dataset_type) ==
    SelectSeq(tables.calculated_correlations, LAMBDA r : r.dataset_type = dataset_type)

get_provider_exists(tables, provider_code) ==
    \E i \in DOMAIN tables.provider_dataset_mapping :
        tables.provider_dataset_mapping[i].provider_code = provider_code

\* SELECT tp_measure, score, dataset_type FROM raw_scores WHERE
\* provider_code = ?
get_provider_scores(tables, provider_code) ==
    SelectSeq(tables.raw_scores, LAMBDA r : r.provider_code = provider_code)

InitProvider ==
    /\ store = NoStore
    /\ lastRun = [year |-> 0, unreadable |-> {}, ok |-> FALSE, exit |-> 0,
                  again |-> FALSE, replaced |-> FALSE]
    /\ frames = NoFrames
    /\ fn = "none"
    /\ \E stored \in [DOMAIN YearSeq ->
                        {{}, {"LCRA"}, {"LCHO"}, {"LCRA", "LCHO"}, {"COMBINED"}}],
          types \in {<<1, 2, 3>>, <<2, 1, 3>>},
          correlated \in SUBSET {"LCRA", "LCHO"},
          dataset_type \in {"LCRA", "LCHO"} :
            arg = [tables |-> ProviderTables(stored, types, correlated),
                   provider_code |-> "A",
                   dataset_type |-> dataset_type]
    /\ res = <<>>

\* identify_priority(df, provider_code) on the getters of the store
IdentifyPriorityOfProvider ==
    /\ fn = "none"
    /\ fn' = "identify_priority"
    /\ res' = LET found == get_provider_dataset_type(arg.tables, arg.provider_code)
                  dataset_type == IF found = "None" THEN "LCRA" ELSE found
              IN  identify_priority(
                      get_provider_exists(arg.tables, arg.provider_code),
                      get_provider_scores(arg.tables, arg.provider_code),
                      get_provider_percentiles(arg.tables, arg.provider_code),
                      get_dataset_correlations(arg.tables, dataset_type))
    /\ UNCHANGED <<store, lastRun, frames, arg>>

\* calculate_momentum(df, provider_code, dataset_type): the scores of the
\* provider of either year; the dataset_type argument is not read
MomentumOfProvider ==
    /\ fn = "none"
    /\ fn' = "calculate_momentum"
    /\ res' = LET provider_scores == get_provider_scores(arg.tables, arg.provider_code)
              IN  calculate_momentum(
                      SelectSeq(provider_scores, LAMBDA r : r.year = 2024),
                      SelectSeq(provider_scores, LAMBDA r : r.year = 2025))
    /\ UNCHANGED <<store, lastRun, frames, arg>>

NextProvider == IdentifyPriorityOfProvider \/ MomentumOfProvider

SpecProvider == InitProvider /\ [][NextProvider]_vars

\* C28: for every measure of a result of identify_priority there is a
\* dataset type under which the provider has a score of the measure, such
\* that the percentile of the entry is that of a percentile record of the
\* provider for this measure and dataset type, and the correlation of the
\* entry is that of the correlation record of this measure and dataset type
\* (the default when the dataset type has no such record).
C28_PercentileAndCorrelationOfOneDataset ==
    (fn = "identify_priority" /\ res.error = "none") =>
        \A m \in DOMAIN res.all_priorities :
            \E d \in Range(DatasetSeq) :
                LET of(table) == {r \in Range(arg.tables[table]) :
                                     r.tp_measure = m /\ r.dataset_type = d}
                IN  /\ \E r \in of("raw_scores") : r.provider_code = arg.provider_code
                    /\ \E p \in of("calculated_percentiles") :
                          /\ p.provider_code = arg.provider_code
                          /\ p.percentile_rank = res.all_priorities[m].percentile
                    /\ IF of("calculated_correlations") = {}
                       THEN res.all_priorities[m].correlation = DefaultCorrelation
                       ELSE \E c \in of("calculated_correlations") :
                               c.correlation_with_tp01 = res.all_priorities[m].correlation

-----------------------------------------------------------------------------
\* A reload statement by statement, next to a reader (build_analytics_db_v2.py,
\* load_to_duckdb on an existing store; data_processor_enhanced.py,
\* _connect_to_db and the getters).  The ETL and the reader are two
\* processes on one store file.  The records a table holds of a year are
\* told by the number of the load that wrote them, 0 for none; the store
\* starts with the records of a first load of 2024.  Here store is the
\* content of the tables, lastRun the state of the load, frames that of the
\* reader, arg the number of the last load and res what the reader read.
\* ------------------------------------------------------------------

MaxLoads == 2

\* a store file that any number of connections may open in any mode
CanConnect_unlocked(read_only, held_read_write, held_read_only) == TRUE

\* duckdb.connect on the store file from a process, while other processes
\* hold it: read-write access is exclusive, read-only access is shared
CanConnect(read_only, held_read_write, held_read_only) ==
    IF read_only THEN ~held_read_write
    ELSE ~held_read_write /\ ~held_read_only

\* the statements of the branch for an existing store, in order; the last
\* stands for the indexes, the view and the verification, which leave the
\* records alone
LoadStatements ==
    << <<"DELETE", "raw_scores">>, <<"DELETE", "calculated_percentiles">>,
       <<"DELETE", "calculated_correlations">>, <<"DELETE", "provider_summary">>,
       <<"INSERT", "raw_scores">>, <<"INSERT", "calculated_percentiles">>,
       <<"INSERT", "calculated_correlations">>, <<"INSERT", "provider_summary">>,
       <<"DELETE", "provider_dataset_mapping">>, <<"INSERT", "provider_dataset_mapping">>,
       <<"CREATE INDEX", "raw_scores">> >>

\* the records a load writes into a table: a load without correlations
\* skips the INSERT into calculated_correlations
Written(load, table) ==
    IF table = "calculated_correlations" /\ ~load.correlations THEN 0 ELSE load.version

\* con.execute of one statement, committed on its own
Execute(tables, statement, load) ==
    LET table == statement[2]
    IN  IF statement[1] = "CREATE INDEX" THEN tables
        ELSE IF table = "provider_dataset_mapping"
        THEN [tables EXCEPT ![table] = IF statement[1] = "DELETE" THEN 0 ELSE load.version]
        ELSE IF statement[1] = "DELETE"
        THEN [tables EXCEPT ![table][load.year] = 0]
        ELSE [tables EXCEPT ![table][load.year] =
                 IF Written(load, table) = 0 THEN @ ELSE Written(load, table)]

StoredTables(loaded) ==
    [table \in AllTables |->
        IF table = "provider_dataset_mapping" THEN loaded[2024]
        ELSE [year \in Years |-> loaded[year]]]

InitLoad ==
    /\ store = StoredTables([year \in Years |-> IF year = 2024 THEN 1 ELSE 0])
    /\ lastRun = [pc |-> 0, year |-> 2024, version |-> 1, correlations |-> TRUE,
                  before |-> StoredTables([year \in Years |-> 0]),
                  failed_at |-> 0, clean |-> TRUE]
    /\ frames = [connected |-> FALSE, refused |-> FALSE]
    /\ fn = "none"
    /\ arg = 1
    /\ res = [connected |-> FALSE, tables |-> StoredTables([year \in Years |-> 0])]

\* load_to_duckdb: con = duckdb.connect(self.db_path); when the reader
\* holds the file, connect raises and the load ends with the store as it was
WriterConnect ==
    /\ lastRun.pc = 0
    /\ arg < 1 + MaxLoads
    /\ \E year \in Years, correlations \in BOOLEAN :
          lastRun' = [pc |-> IF CanConnect(FALSE, FALSE, frames.connected) THEN 1 ELSE 0,
                      year |-> year, version |-> arg + 1, correlations |-> correlations,
                      before |-> store, failed_at |-> 0, clean |-> lastRun.clean]
    /\ arg' = arg + 1
    /\ fn' = "connect"
    /\ UNCHANGED <<store, frames, res>>

\* the next statement runs; after the last one the connection is closed
WriterExecute ==
    /\ lastRun.pc \in DOMAIN LoadStatements
    /\ store' = Execute(store, LoadStatements[lastRun.pc], lastRun)
    /\ lastRun' = [lastRun EXCEPT !.pc = IF @ = Len(LoadStatements) THEN 0 ELSE @ + 1]
    /\ fn' = "execute"
    /\ UNCHANGED <<frames, arg, res>>

\* the next statement raises: finally closes the connection, and what the
\* statements before it did stays
WriterFail ==
    /\ lastRun.pc \in DOMAIN LoadStatements
    /\ lastRun' = [lastRun EXCEPT !.pc = 0, !.failed_at = lastRun.pc, !.clean = FALSE]
    /\ fn' = "raise"
    /\ UNCHANGED <<store, frames, arg, res>>

\* _connect_to_db: duckdb.connect(self.db_path, read_only=True); on an
\* error the processor has no connection
ReaderConnect ==
    /\ ~frames.connected
    /\ frames' = IF CanConnect(TRUE, lastRun.pc # 0, FALSE)
                 THEN [connected |-> TRUE, refused |-> FALSE]
                 ELSE [connected |-> FALSE, refused |-> TRUE]
    /\ fn' = "_connect_to_db"
    /\ UNCHANGED <<store, lastRun, arg, res>>

\* a getter: the records of the tables, or empty frames without connection
ReaderRead ==
    /\ res' = IF frames.connected THEN [connected |-> TRUE, tables |-> store]
              ELSE [connected |-> FALSE, tables |-> StoredTables([year \in Years |-> 0])]
    /\ fn' = "read"
    /\ UNCHANGED <<store, lastRun, frames, arg>>

\* close()
ReaderClose ==
    /\ frames.connected
    /\ frames' = [connected |-> FALSE, refused |-> FALSE]
    /\ fn' = "close"
    /\ UNCHANGED <<store, lastRun, arg, res>>

NextLoad ==
    \/ WriterConnect
    \/ WriterExecute
    \/ WriterFail
    \/ ReaderConnect
    \/ ReaderRead
    \/ ReaderClose

SpecLoad == InitLoad /\ [][NextLoad]_vars

\* C23: what a reader reads from the store is the content of the tables at
\* a moment when no reload is under way; as long as no reload has failed,
\* the tables it reads hold, for every year, the records of one and the
\* same load (calculated_correlations those or none).
C23_ReaderNeverSeesHalfReload ==
    (fn = "read" /\ res.connected) =>
        /\ lastRun.pc = 0
        /\ res.tables = store
        /\ lastRun.clean =>
              \A year \in Years :
                 \E version \in 0..(1 + MaxLoads) :
                    \A table \in YearTables :
                       \/ res.tables[table][year] = version
                       \/ table = "calculated_correlations" /\ res.tables[table][year] = 0

\* C23 witness: a reload of 2024 has deleted the records of the year and
\* not yet inserted the new ones; the reader asked for a connection
\* meanwhile, got none, and its getter returned empty frames
C23_Witness ==
    /\ fn = "read"
    /\ lastRun.pc = 5
    /\ lastRun.year = 2024
    /\ lastRun.before.raw_scores[2024] = 1
    /\ store.raw_scores[2024] = 0
    /\ frames.refused
    /\ ~res.connected

\* C25: when a reload of year Y has failed at one of its statements, every
\* table holds for Y the records it held before the reload or the records
\* of the reload.
C25_FailedReloadAllOrNothing ==
    (lastRun.pc = 0 /\ lastRun.failed_at > 0) =>
        \A table \in YearTables :
            store[table][lastRun.year]
               \in {lastRun.before[table][lastRun.year], Written(lastRun, table)}

====
